---- MODULE Spec2Model ----
(***************************************************************************)
(* Mountain road safety simulator: the journey risk simulation engine of   *)
(* src/src/simulation_engine.py (VehicleSimulator, EnvironmentalHazards,   *)
(* simulate_vehicle_journey).                                              *)
(*                                                                         *)
(* Numbers.  The program computes with floats.  Here every real quantity   *)
(* is a fixed-point integer: a value x stands for x / Scale (Scale = 10^6),*)
(* and every division rounds down.  Inputs are kept in the units of the    *)
(* data files, on a grid:                                                  *)
(*   speed            tenths of km/h      (40 km/h  = 400)                 *)
(*   max safe speed   km/h                                                 *)
(*   slope            whole percent, signed                                *)
(*   road/vehicle width   decimetres      (7.0 m   = 70)                   *)
(*   centre of gravity    centimetres     (1.5 m   = 150)                  *)
(*   visibility       metres                                               *)
(*   distance         hundredths of km    (0.11 km = 11)                   *)
(*   friction, base landslide risk, brake heat factor   hundredths         *)
(*   rainfall         mm                                                   *)
(* Risks, brake temperature (degrees C) and cumulative brake usage are     *)
(* Scale-d.  A missing table cell (pandas NaN) is the value NaN.           *)
(***************************************************************************)
EXTENDS Integers, Sequences, FiniteSets, TLC

Scale == 1000 * 1000

MaxInt == 2 * 1073741823 + 1

NaN == 0 - 1000000000

Min(a, b) == IF a <= b THEN a ELSE b

Max(a, b) == IF a >= b THEN a ELSE b

Abs(a) == IF a >= 0 THEN a ELSE 0 - a

\* Python's max(0, x): x when x > 0, and 0 otherwise (also for x = nan,
\* because nan > 0 is false).
Max0(x) == IF x = NaN THEN 0 ELSE IF x > 0 THEN x ELSE 0

\* <<q, r>> with a * b = q * c + r and 0 <= r < c, for a, b >= 0 and c > 0,
\* computed without any intermediate above 3 * c.  (h, the result for b \div 2,
\* is a bound variable so that it is computed once at each level.)
RECURSIVE MulDivRem(_, _, _)
MulDivRem(a, b, c) ==
    IF b = 0 THEN <<0, 0>>
    ELSE CHOOSE qr \in {<<2 * h[1] + (b % 2) * (a \div c)
                            + ((2 * h[2] + (b % 2) * (a % c)) \div c),
                          (2 * h[2] + (b % 2) * (a % c)) % c>>
                        : h \in {MulDivRem(a, b \div 2, c)}} : TRUE

\* floor(a * b / c) for a, b >= 0 and c > 0.  (x holds the three operands,
\* computed once.)
MulDiv(a, b, c) ==
    CHOOSE q \in {IF x[1] = 0 \/ x[2] = 0 THEN 0
                  ELSE IF x[1] <= MaxInt \div x[2] THEN (x[1] * x[2]) \div x[3]
                  ELSE MulDivRem(x[1], x[2], x[3])[1]
                  : x \in {<<a, b, c>>}} : TRUE

\* floor(sqrt(n)) by bisection on lo <= sqrt(n) < hi.
RECURSIVE IsqrtIter(_, _, _)
IsqrtIter(n, lo, hi) ==
    IF hi - lo <= 1 THEN lo
    ELSE LET mid == (lo + hi) \div 2
         IN  IF mid * mid <= n THEN IsqrtIter(n, mid, hi)
             ELSE IsqrtIter(n, lo, mid)

Isqrt(n) == IsqrtIter(n, 0, 46341)

\* math.sin(math.atan(m / 100)) = m / sqrt(100^2 + m^2), Scale-d, for m >= 0.
SinAtan(m) == MulDiv(m, Scale * 100, Isqrt((10000 + m * m) * 10000))

\* round(x, 1) of a Scale-d x >= 0: to the nearest tenth, ties to even.
Round1(x) ==
    LET unit == Scale \div 10
        q    == x \div unit
        r    == x % unit
    IN  IF 2 * r > unit \/ (2 * r = unit /\ q % 2 = 1)
        THEN (q + 1) * unit
        ELSE q * unit

(***************************************************************************)
(* VehicleSimulator.__init__ : the two tracking variables of a new object. *)
(***************************************************************************)
AmbientTemperature == 20 * Scale

VehicleSimulator ==
    [brake_temperature |-> AmbientTemperature, cumulative_brake_usage |-> 0]

(***************************************************************************)
(* VehicleSimulator.calculate_stability_risk                               *)
(***************************************************************************)
\* The curve factors with 'Moderate', the journey's default category, as
\* the fallback of the lookup.
curve_factors_default_moderate(curve_sharpness) ==
    CASE curve_sharpness = "Gentle"     -> 100000
      [] curve_sharpness = "Sharp"      -> 600000
      [] curve_sharpness = "Very_Sharp" -> 900000
      [] OTHER                          -> 300000

curve_factors(curve_sharpness) ==
    CASE curve_sharpness = "Gentle"     -> 100000
      [] curve_sharpness = "Moderate"   -> 300000
      [] curve_sharpness = "Sharp"      -> 600000
      [] curve_sharpness = "Very_Sharp" -> 900000
      [] OTHER                          -> 500000

calculate_stability_risk(vp, slope, road_width, curve_sharpness, speed, road_friction) ==
    LET curve_factor      == curve_factors(curve_sharpness)
        speed_ratio       == MulDiv(speed, Scale, vp.Max_Safe_Speed_Hills_kmh * 10)
        lateral_risk      == MulDiv(curve_factor, speed_ratio, Scale)
        slope_risk        == Min(MulDiv(Abs(slope), Scale, 35), Scale)
        weight_factor     == MulDiv(vp.Weight_kg, Scale, 12000)
        longitudinal_risk == MulDiv(MulDiv(slope_risk, weight_factor, Scale), 12, 10)
        clearance         == IF road_width = NaN THEN NaN ELSE road_width - vp.Width_m
        clearance_risk    == IF clearance = NaN THEN Max0(NaN)
                             ELSE Max0(Scale - ((clearance * Scale) \div 30))
        tipping_risk      == MulDiv(MulDiv(MulDiv(vp.Center_Of_Gravity_m, Scale, 250),
                                           curve_factor, Scale),
                                    speed_ratio, Scale)
        friction_risk     == (Scale - road_friction * (Scale \div 100)) \div 2
        weighted          == (lateral_risk * 30 + longitudinal_risk * 25
                              + clearance_risk * 20 + tipping_risk * 15
                              + friction_risk * 10) \div 100
    IN  [stability_risk            |-> Min(weighted, Scale),
         lateral_risk              |-> lateral_risk,
         longitudinal_risk         |-> longitudinal_risk,
         clearance_risk            |-> clearance_risk,
         tipping_risk              |-> tipping_risk,
         speed_ratio               |-> speed_ratio,
         safe_speed_recommendation |-> vp.Max_Safe_Speed_Hills_kmh * (Scale - curve_factor)]

(***************************************************************************)
(* VehicleSimulator.calculate_brake_failure_risk.  self is the object's    *)
(* tracking state; the value is [self |-> the state after the call,        *)
(* ret |-> the returned dictionary].                                       *)
(***************************************************************************)
BrakeStatus(brake_temperature) ==
    IF brake_temperature > 350 * Scale THEN "CRITICAL - Brake Failure Imminent"
    ELSE IF brake_temperature > 250 * Scale THEN "WARNING - Brakes Overheating"
    ELSE IF brake_temperature > 150 * Scale THEN "Caution - Elevated Temperature"
    ELSE "Normal"

\* The cooling branch without its floor at the ambient temperature.
BrakeCoolingWithoutFloor(self) ==
    LET temperature == self.brake_temperature - 5 * Scale
        usage       == Max(0, self.cumulative_brake_usage - Scale \div 10)
    IN  [self |-> [brake_temperature |-> temperature, cumulative_brake_usage |-> usage],
         ret  |-> [brake_temperature  |-> temperature,
                   brake_failure_risk |-> 0,
                   brake_usage        |-> 0,
                   status             |-> "Cooling"]]

\* The cooling branch leaving the cumulative usage as it was.
BrakeCoolingKeepingUsage(self) ==
    LET temperature == Max(AmbientTemperature, self.brake_temperature - 5 * Scale)
    IN  [self |-> [brake_temperature |-> temperature,
                   cumulative_brake_usage |-> self.cumulative_brake_usage],
         ret  |-> [brake_temperature  |-> temperature,
                   brake_failure_risk |-> 0,
                   brake_usage        |-> 0,
                   status             |-> "Cooling"]]

BrakeCooling(self) ==
    LET cooling_rate == 5 * Scale
        temperature  == Max(AmbientTemperature, self.brake_temperature - cooling_rate)
        usage        == Max(0, self.cumulative_brake_usage - Scale \div 10)
    IN  [self |-> [brake_temperature |-> temperature, cumulative_brake_usage |-> usage],
         ret  |-> [brake_temperature  |-> temperature,
                   brake_failure_risk |-> 0,
                   brake_usage        |-> 0,
                   status             |-> "Cooling"]]

\* The heating branch without the natural cooling of lines 154-156.
BrakeHeatingWithoutAmbientCooling(self, vp, slope, segment_distance, speed) ==
    LET slope_magnitude   == Abs(slope)
        distance_m        == segment_distance * 10
        \* weight * 9.81 * sin(atan(slope)), in hundredths of a joule per metre
        force             == MulDiv(vp.Weight_kg * 981, SinAtan(slope_magnitude), Scale)
        energy_dissipated == MulDiv(force, distance_m, 100)
        heated            == MulDiv(energy_dissipated,
                                    vp.Brake_Heat_Factor * (Scale \div 100),
                                    50 * 500 * 1000)
        speed_factor      == 2 * MulDiv(speed, Scale, vp.Max_Safe_Speed_Hills_kmh * 10)
        temp_increase     == MulDiv(heated, speed_factor, Scale)
        ambient_cooling   == 0
        temperature       == Max(AmbientTemperature,
                                 self.brake_temperature + temp_increase - ambient_cooling)
        brake_usage       == MulDiv(MulDiv(slope_magnitude, Scale, 30), segment_distance, 11)
        usage             == self.cumulative_brake_usage + brake_usage
        temp_risk         == IF temperature > 200 * Scale
                             THEN (temperature - 200 * Scale) \div 200
                             ELSE 0
        usage_risk        == Min(usage \div 10, Scale)
        brake_failure_risk == Min((temp_risk * 7 + usage_risk * 3) \div 10, Scale)
    IN  [self |-> [brake_temperature |-> temperature, cumulative_brake_usage |-> usage],
         ret  |-> [brake_temperature  |-> Round1(temperature),
                   brake_failure_risk |-> brake_failure_risk,
                   brake_usage        |-> brake_usage,
                   status             |-> BrakeStatus(temperature)]]

BrakeHeating(self, vp, slope, segment_distance, speed) ==
    LET slope_magnitude   == Abs(slope)
        distance_m        == segment_distance * 10
        \* weight * 9.81 * sin(atan(slope)), in hundredths of a joule per metre
        force             == MulDiv(vp.Weight_kg * 981, SinAtan(slope_magnitude), Scale)
        energy_dissipated == MulDiv(force, distance_m, 100)
        heated            == MulDiv(energy_dissipated,
                                    vp.Brake_Heat_Factor * (Scale \div 100),
                                    50 * 500 * 1000)
        speed_factor      == 2 * MulDiv(speed, Scale, vp.Max_Safe_Speed_Hills_kmh * 10)
        temp_increase     == MulDiv(heated, speed_factor, Scale)
        ambient_cooling   == 2 * Scale
        temperature       == Max(AmbientTemperature,
                                 self.brake_temperature + temp_increase - ambient_cooling)
        brake_usage       == MulDiv(MulDiv(slope_magnitude, Scale, 30), segment_distance, 11)
        usage             == self.cumulative_brake_usage + brake_usage
        temp_risk         == IF temperature > 200 * Scale
                             THEN (temperature - 200 * Scale) \div 200
                             ELSE 0
        usage_risk        == Min(usage \div 10, Scale)
        brake_failure_risk == Min((temp_risk * 7 + usage_risk * 3) \div 10, Scale)
    IN  [self |-> [brake_temperature |-> temperature, cumulative_brake_usage |-> usage],
         ret  |-> [brake_temperature  |-> Round1(temperature),
                   brake_failure_risk |-> brake_failure_risk,
                   brake_usage        |-> brake_usage,
                   status             |-> BrakeStatus(temperature)]]

calculate_brake_failure_risk(self, vp, slope, segment_distance, speed, is_downhill) ==
    IF ~is_downhill \/ slope >= 0
    THEN BrakeCooling(self)
    ELSE BrakeHeating(self, vp, slope, segment_distance, speed)

(***************************************************************************)
(* VehicleSimulator.calculate_cliff_fall_risk                              *)
(***************************************************************************)
CliffSeverity(cliff_fall_risk) ==
    IF cliff_fall_risk > 700000 THEN "EXTREME - Immediate danger"
    ELSE IF cliff_fall_risk > 500000 THEN "HIGH - Very dangerous"
    ELSE IF cliff_fall_risk > 300000 THEN "MEDIUM - Caution required"
    ELSE "LOW - Manageable risk"

\* The cliff model with the two protection factors exchanged.
cliff_risk_factors_exchanged(cliff_present, guardrail, road_width, visibility, speed, stability_risk) ==
    IF ~cliff_present
    THEN [cliff_fall_risk |-> 0, severity |-> "None"]
    ELSE
    LET protection_factor == IF guardrail THEN 120 ELSE 25
        weighted          == Max0(Scale - MulDiv(road_width, Scale, 70)) * 30
                             + Max0(Scale - MulDiv(visibility, Scale, 80)) * 25
                             + Min(MulDiv(speed, Scale, 600), 13 * (Scale \div 10)) * 25
                             + ((stability_risk * 8) \div 10) * 20
        cliff_fall_risk   == Min(MulDiv(weighted, 6 * protection_factor, 100000), Scale)
    IN  [cliff_fall_risk |-> cliff_fall_risk, severity |-> CliffSeverity(cliff_fall_risk)]

\* The cliff model with a guardrail that halves the risk.
calculate_cliff_fall_risk_weak_guardrail(cliff_present, guardrail, road_width, visibility, speed, stability_risk) ==
    IF ~cliff_present
    THEN [cliff_fall_risk |-> 0, severity |-> "None"]
    ELSE
    LET base_risk         == 6
        protection_factor == IF guardrail THEN 50 ELSE 120
        width_risk        == IF road_width = NaN THEN Max0(NaN)
                             ELSE Max0(Scale - MulDiv(road_width, Scale, 70))
        visibility_risk   == IF visibility = NaN THEN Max0(NaN)
                             ELSE Max0(Scale - MulDiv(visibility, Scale, 80))
        speed_risk        == Min(MulDiv(speed, Scale, 600), 13 * (Scale \div 10))
        stability_contribution == (stability_risk * 8) \div 10
        weighted          == width_risk * 30 + visibility_risk * 25
                             + speed_risk * 25 + stability_contribution * 20
        cliff_fall_risk   == Min(MulDiv(weighted, base_risk * protection_factor, 100000),
                                 Scale)
    IN  [cliff_fall_risk |-> cliff_fall_risk, severity |-> CliffSeverity(cliff_fall_risk)]

calculate_cliff_fall_risk(cliff_present, guardrail, road_width, visibility, speed, stability_risk) ==
    IF ~cliff_present
    THEN [cliff_fall_risk |-> 0, severity |-> "None"]
    ELSE
    LET base_risk         == 6
        protection_factor == IF guardrail THEN 25 ELSE 120
        width_risk        == IF road_width = NaN THEN Max0(NaN)
                             ELSE Max0(Scale - MulDiv(road_width, Scale, 70))
        visibility_risk   == IF visibility = NaN THEN Max0(NaN)
                             ELSE Max0(Scale - MulDiv(visibility, Scale, 80))
        speed_risk        == Min(MulDiv(speed, Scale, 600), 13 * (Scale \div 10))
        stability_contribution == (stability_risk * 8) \div 10
        weighted          == width_risk * 30 + visibility_risk * 25
                             + speed_risk * 25 + stability_contribution * 20
        cliff_fall_risk   == Min(MulDiv(weighted, base_risk * protection_factor, 100000),
                                 Scale)
    IN  [cliff_fall_risk |-> cliff_fall_risk, severity |-> CliffSeverity(cliff_fall_risk)]

(***************************************************************************)
(* EnvironmentalHazards.calculate_landslide_risk                           *)
(***************************************************************************)
soil_factors(soil_type) ==
    CASE soil_type = "Rocky" -> 300000
      [] soil_type = "Loose" -> 900000
      [] soil_type = "Mixed" -> 600000
      [] OTHER               -> 600000

vegetation_factors(vegetation) ==
    CASE vegetation = "Low"    -> 1000000
      [] vegetation = "Medium" -> 700000
      [] vegetation = "High"   -> 400000
      [] OTHER                 -> 700000

\* The rainfall bands with their factors in the reverse order.
rain_factor_bands_reversed(rainfall) ==
    IF rainfall < 25 THEN 1000000
    ELSE IF rainfall < 75 THEN 700000
    ELSE IF rainfall < 150 THEN 400000
    ELSE 100000

rain_factor(rainfall) ==
    IF rainfall < 25 THEN 100000
    ELSE IF rainfall < 75 THEN 400000
    ELSE IF rainfall < 150 THEN 700000
    ELSE 1000000

LandslideCategory(landslide_risk) ==
    IF landslide_risk > 700000 THEN "CRITICAL"
    ELSE IF landslide_risk > 500000 THEN "HIGH"
    ELSE IF landslide_risk > 300000 THEN "MEDIUM"
    ELSE "LOW"

calculate_landslide_risk(slope, rainfall, soil_type, base_risk, vegetation) ==
    LET slope_factor   == Min(MulDiv(Abs(slope), Scale, 40), Scale)
        soil_factor    == soil_factors(soil_type)
        veg_factor     == vegetation_factors(vegetation)
        weighted       == slope_factor * 35 + soil_factor * 30
                          + rain_factor(rainfall) * 25
                          + veg_factor * 10
        landslide_risk == Min(MulDiv(base_risk, weighted, 100 * 100), Scale)
    IN  [landslide_risk        |-> landslide_risk,
         risk_category         |-> LandslideCategory(landslide_risk),
         slope_contribution    |-> slope_factor,
         rainfall_contribution |-> rain_factor(rainfall),
         soil_contribution     |-> soil_factor]

(***************************************************************************)
(* EnvironmentalHazards.adjust_for_driver_behavior                         *)
(***************************************************************************)
experience_factors(driver_experience) ==
    CASE driver_experience = "Novice" -> 1400000
      [] driver_experience = "Medium" -> 1000000
      [] driver_experience = "Expert" -> 750000
      [] OTHER                        -> 1000000

\* The adjustment with the night term subtracted instead of added.
adjust_with_night_discount(base_risk, is_night, is_overspeeding, poor_visibility, driver_experience) ==
    LET flags           == Scale
                           - (IF is_night THEN 350000 ELSE 0)
                           + (IF is_overspeeding THEN 500000 ELSE 0)
                           + (IF poor_visibility THEN 400000 ELSE 0)
        risk_multiplier == MulDiv(flags, experience_factors(driver_experience), Scale)
    IN  [adjusted_risk   |-> Min(MulDiv(base_risk, risk_multiplier, Scale), Scale),
         risk_multiplier |-> risk_multiplier]

\* The adjustment without its final min(..., 1.0).
adjust_without_clamp(base_risk, is_night, is_overspeeding, poor_visibility, driver_experience) ==
    LET flags           == Scale
                           + (IF is_night THEN 350000 ELSE 0)
                           + (IF is_overspeeding THEN 500000 ELSE 0)
                           + (IF poor_visibility THEN 400000 ELSE 0)
        risk_multiplier == MulDiv(flags, experience_factors(driver_experience), Scale)
    IN  [adjusted_risk   |-> MulDiv(base_risk, risk_multiplier, Scale),
         risk_multiplier |-> risk_multiplier]

\* The adjustment with the multiplier set to the experience factor, the
\* flags' sum lost (= in place of *=).
adjust_by_experience_only(base_risk, is_night, is_overspeeding, poor_visibility, driver_experience) ==
    LET risk_multiplier == experience_factors(driver_experience)
    IN  [adjusted_risk   |-> Min(MulDiv(base_risk, risk_multiplier, Scale), Scale),
         risk_multiplier |-> risk_multiplier]

\* The adjustment with the flags compounding: each flag that is on multiplies
\* the multiplier by one plus its increment.
adjust_compounding_flags(base_risk, is_night, is_overspeeding, poor_visibility, driver_experience) ==
    LET night           == IF is_night THEN 1350000 ELSE Scale
        overspeeding    == IF is_overspeeding THEN 1500000 ELSE Scale
        visibility      == IF poor_visibility THEN 1400000 ELSE Scale
        flags           == MulDiv(MulDiv(night, overspeeding, Scale), visibility, Scale)
        risk_multiplier == MulDiv(flags, experience_factors(driver_experience), Scale)
    IN  [adjusted_risk   |-> Min(MulDiv(base_risk, risk_multiplier, Scale), Scale),
         risk_multiplier |-> risk_multiplier]

adjust_for_driver_behavior(base_risk, is_night, is_overspeeding, poor_visibility, driver_experience) ==
    LET flags           == Scale
                           + (IF is_night THEN 350000 ELSE 0)
                           + (IF is_overspeeding THEN 500000 ELSE 0)
                           + (IF poor_visibility THEN 400000 ELSE 0)
        exp_factor      == experience_factors(driver_experience)
        risk_multiplier == MulDiv(flags, exp_factor, Scale)
        adjusted_risk   == Min(MulDiv(base_risk, risk_multiplier, Scale), Scale)
    IN  [adjusted_risk   |-> adjusted_risk,
         risk_multiplier |-> risk_multiplier]

(***************************************************************************)
(* Input data.  The CSV files are not part of the sources; the tables      *)
(* below are small samples with the columns the engine reads.              *)
(***************************************************************************)
vehicle_params(Vehicle_Type) ==
    CASE Vehicle_Type = "Car" ->
           [Vehicle_Type |-> "Car", Weight_kg |-> 1200, Width_m |-> 18,
            Max_Safe_Speed_Hills_kmh |-> 60, Brake_Heat_Factor |-> 100,
            Center_Of_Gravity_m |-> 60]
      [] Vehicle_Type = "Bus" ->
           [Vehicle_Type |-> "Bus", Weight_kg |-> 12000, Width_m |-> 25,
            Max_Safe_Speed_Hills_kmh |-> 60, Brake_Heat_Factor |-> 150,
            Center_Of_Gravity_m |-> 150]
      [] Vehicle_Type = "Truck" ->
           [Vehicle_Type |-> "Truck", Weight_kg |-> 16000, Width_m |-> 26,
            Max_Safe_Speed_Hills_kmh |-> 40, Brake_Heat_Factor |-> 180,
            Center_Of_Gravity_m |-> 180]

environment_conditions(Condition) ==
    CASE Condition = "Normal" ->
           [Condition |-> "Normal", Rainfall_mm |-> 10, Soil_Type |-> "Mixed",
            Landslide_Risk_Base |-> 30, Road_Friction |-> 85]
      [] Condition = "Heavy_Rain" ->
           [Condition |-> "Heavy_Rain", Rainfall_mm |-> 160, Soil_Type |-> "Loose",
            Landslide_Risk_Base |-> 90, Road_Friction |-> 50]

\* speed=None and driver_behavior=None, the defaults of the two arguments.
NoSpeed == 0 - 1

None == "None"

driver_behaviors(name) ==
    CASE name = "normal" ->
           [is_night |-> FALSE, is_overspeeding |-> FALSE,
            poor_visibility |-> FALSE, driver_experience |-> "Medium"]
      [] name = "danger" ->
           [is_night |-> TRUE, is_overspeeding |-> TRUE,
            poor_visibility |-> FALSE, driver_experience |-> "Medium"]
      [] name = "extreme" ->
           [is_night |-> TRUE, is_overspeeding |-> TRUE,
            poor_visibility |-> TRUE, driver_experience |-> "Novice"]
      [] name = "novice_fog" ->
           [is_night |-> FALSE, is_overspeeding |-> FALSE,
            poor_visibility |-> TRUE, driver_experience |-> "Novice"]
      [] name = "expert" ->
           [is_night |-> FALSE, is_overspeeding |-> FALSE,
            poor_visibility |-> FALSE, driver_experience |-> "Expert"]
      [] name = "expert_danger" ->
           [is_night |-> TRUE, is_overspeeding |-> TRUE,
            poor_visibility |-> FALSE, driver_experience |-> "Expert"]

\* An object cell that is missing (NaN in an object column), and str() of a cell.
NaNCell == "<NaN>"

Str(cell) == IF cell = NaNCell THEN "nan" ELSE cell

\* str(...).strip().lower() on the spellings the tables use.
StripLower(text) ==
    CASE text \in {"Yes", "yes", "YES", " Yes "} -> "yes"
      [] text \in {"No", "no", "NO", " No "}     -> "no"
      [] OTHER                                   -> text

\* '-' in str(cell), the cell's text given as its characters.
DashIn(chars) == \E i \in DOMAIN chars : chars[i] = "-"

\* The kinds of road segment of the sample route: the columns of the road
\* data (Slope_Magnitude(%), Slop(%), Risk, and Length, the distance to the
\* previous row) and, when row is TRUE, of the road characteristics.  A
\* "back" row is out of order: its distance is below the previous row's.
SegmentKind(kind) ==
    CASE kind = "flat" ->
           [Slope_Magnitude |-> 0, Slop |-> <<"0">>, Length |-> 11, Risk |-> "Green",
            row |-> TRUE, Road_Width_m |-> 70, Curve_Sharpness |-> "Gentle",
            Cliff_Present |-> "No", Guardrail_Present |-> "Yes", Visibility_m |-> 80]
      [] kind = "descent" ->
           [Slope_Magnitude |-> 50, Slop |-> <<"-", "5", "0">>, Length |-> 11,
            Risk |-> "Red",
            row |-> TRUE, Road_Width_m |-> 40, Curve_Sharpness |-> "Sharp",
            Cliff_Present |-> "Yes", Guardrail_Present |-> "No", Visibility_m |-> 30]
      [] kind = "climb" ->
           [Slope_Magnitude |-> 20, Slop |-> <<"2", "0">>, Length |-> 0,
            Risk |-> "Yellow",
            row |-> FALSE, Road_Width_m |-> NaN, Curve_Sharpness |-> NaNCell,
            Cliff_Present |-> NaNCell, Guardrail_Present |-> NaNCell,
            Visibility_m |-> NaN]
      [] kind = "signed" ->
           [Slope_Magnitude |-> 0 - 50, Slop |-> <<"-", "5", "0">>, Length |-> 1000,
            Risk |-> "Extreme",
            row |-> TRUE, Road_Width_m |-> 50, Curve_Sharpness |-> "Very_Sharp",
            Cliff_Present |-> " Yes ", Guardrail_Present |-> "yes", Visibility_m |-> 60]
      [] kind = "back" ->
           [Slope_Magnitude |-> 0 - 30, Slop |-> <<"-", "3", "0">>, Length |-> 0 - 30,
            Risk |-> "Yellow",
            row |-> TRUE, Road_Width_m |-> 60, Curve_Sharpness |-> "Moderate",
            Cliff_Present |-> "No", Guardrail_Present |-> "No", Visibility_m |-> 100]

SegmentKinds == {"flat", "descent", "climb", "signed"}

\* Cumulative distance of row i of a route (hundredths of km).
RECURSIVE Distance(_, _)
Distance(route, i) ==
    IF i = 0 THEN 0 ELSE Distance(route, i - 1) + SegmentKind(route[i]).Length

\* The road data table of a route: one row per segment, Segment = 1..N.
road_data_of(route) ==
    [i \in 1..Len(route) |->
        [Segment         |-> i,
         Distance_KM     |-> Distance(route, i),
         Slope_Magnitude |-> SegmentKind(route[i]).Slope_Magnitude,
         Slop            |-> SegmentKind(route[i]).Slop,
         Risk            |-> SegmentKind(route[i]).Risk]]

\* The road characteristics table of a route: a row for each segment that has one.
road_characteristics_of(route) ==
    {[Segment           |-> i,
      Road_Width_m      |-> SegmentKind(route[i]).Road_Width_m,
      Curve_Sharpness   |-> SegmentKind(route[i]).Curve_Sharpness,
      Cliff_Present     |-> SegmentKind(route[i]).Cliff_Present,
      Guardrail_Present |-> SegmentKind(route[i]).Guardrail_Present,
      Visibility_m      |-> SegmentKind(route[i]).Visibility_m]
     : i \in {k \in 1..Len(route) : SegmentKind(route[k]).row}}

\* A row of the road data with the cells of its characteristics row, or
\* with NaN cells when the characteristics have no row for its Segment.
MergedRow(left, road_characteristics) ==
    LET match == {r \in road_characteristics : r.Segment = left.Segment}
    IN  IF match = {}
        THEN [Segment |-> left.Segment, Distance_KM |-> left.Distance_KM,
              Slope_Magnitude |-> left.Slope_Magnitude, Slop |-> left.Slop,
              Risk |-> left.Risk,
              Road_Width_m |-> NaN, Curve_Sharpness |-> NaNCell,
              Cliff_Present |-> NaNCell, Guardrail_Present |-> NaNCell,
              Visibility_m |-> NaN]
        ELSE LET right == CHOOSE r \in match : TRUE
             IN  [Segment |-> left.Segment, Distance_KM |-> left.Distance_KM,
                  Slope_Magnitude |-> left.Slope_Magnitude, Slop |-> left.Slop,
                  Risk |-> left.Risk,
                  Road_Width_m |-> right.Road_Width_m,
                  Curve_Sharpness |-> right.Curve_Sharpness,
                  Cliff_Present |-> right.Cliff_Present,
                  Guardrail_Present |-> right.Guardrail_Present,
                  Visibility_m |-> right.Visibility_m]

\* how='inner' in place of how='left': the rows without characteristics are dropped.
RECURSIVE merge_inner(_, _)
merge_inner(road_data, road_characteristics) ==
    IF road_data = <<>> THEN <<>>
    ELSE LET left == Head(road_data)
             rest == merge_inner(Tail(road_data), road_characteristics)
         IN  IF \E r \in road_characteristics : r.Segment = left.Segment
             THEN <<MergedRow(left, road_characteristics)>> \o rest
             ELSE rest

\* road_data.merge(road_characteristics, on='Segment', how='left'): every row
\* of the road data, in order.  Segment is a key of the characteristics.
merge(road_data, road_characteristics) ==
    [i \in 1..Len(road_data) |-> MergedRow(road_data[i], road_characteristics)]

\* segment.get(column, default): the cell when the table has the column.
Get(segment, column, default) ==
    IF column \in DOMAIN segment THEN segment[column] ELSE default

(***************************************************************************)
(* simulate_vehicle_journey, lines 462-487: the locals of the loop body    *)
(* for the row at position pos (idx = pos - 1) of the merged table.        *)
(***************************************************************************)
DefaultLength == 11

\* The locals with the distance difference taken as it is, the lines
\* 485-487 left out.
SegmentLocalsWithoutClamp(combined, pos) ==
    LET segment          == combined[pos]
        idx              == pos - 1
        current_distance == Get(segment, "Distance_KM", DefaultLength * (idx + 1))
        difference       == IF idx > 0
                            THEN current_distance - combined[pos - 1].Distance_KM
                            ELSE DefaultLength
    IN  [segment_id       |-> segment.Segment,
         slope_pct        |-> segment.Slope_Magnitude,
         is_downhill      |-> DashIn(segment.Slop),
         road_width       |-> Get(segment, "Road_Width_m", 70),
         curve_sharpness  |-> Str(Get(segment, "Curve_Sharpness", "Moderate")),
         cliff_present    |-> StripLower(Str(Get(segment, "Cliff_Present", "No"))) = "yes",
         guardrail        |-> StripLower(Str(Get(segment, "Guardrail_Present", "Yes"))) = "yes",
         visibility       |-> Get(segment, "Visibility_m", 80),
         segment_distance |-> difference]

SegmentLocals(combined, pos) ==
    LET segment          == combined[pos]
        idx              == pos - 1
        current_distance == Get(segment, "Distance_KM", DefaultLength * (idx + 1))
        difference       == IF idx > 0
                            THEN current_distance - combined[pos - 1].Distance_KM
                            ELSE DefaultLength
    IN  [segment_id       |-> segment.Segment,
         slope_pct        |-> segment.Slope_Magnitude,
         is_downhill      |-> DashIn(segment.Slop),
         road_width       |-> Get(segment, "Road_Width_m", 70),
         curve_sharpness  |-> Str(Get(segment, "Curve_Sharpness", "Moderate")),
         cliff_present    |-> StripLower(Str(Get(segment, "Cliff_Present", "No"))) = "yes",
         guardrail        |-> StripLower(Str(Get(segment, "Guardrail_Present", "Yes"))) = "yes",
         visibility       |-> Get(segment, "Visibility_m", 80),
         segment_distance |-> IF difference <= 0 THEN DefaultLength ELSE difference]

(***************************************************************************)
(* State.  Each journey j is one call of simulate_vehicle_journey; its     *)
(* variables are the call's arguments and locals.  object and last belong  *)
(* to a caller that holds a VehicleSimulator and calls the models directly.*)
(***************************************************************************)
VARIABLES
    pc,                 \* pc[j]: "NotStarted", the step of the loop body, "Completed"
    args,               \* args[j]: the arguments of the call
    vehicle,            \* vehicle[j]: the call's VehicleSimulator (its tracking state)
    speed,              \* speed[j]: the speed in use
    driver_behavior,    \* driver_behavior[j]: the behavior dictionary in use
    combined,           \* combined[j]: the merged table
    pos,                \* pos[j]: position in combined of the row in the loop (idx + 1)
    stability,          \* the loop body's locals: the dictionaries the models returned
    brake,
    cliff,
    landslide,
    base_combined_risk,
    results,            \* results[j]: the records appended so far
    brake_calls,       \* history: the positions the brake model was invoked for
    travelled,         \* history: the segment_distance of each of those invocations
    previous,           \* history: what the preceding call returned, if its
                        \* arguments were the same as this call's
    object,             \* a directly used VehicleSimulator: [vp, self]
    last                \* the last direct call: [fn, arg, ret]

vars == <<pc, args, vehicle, speed, driver_behavior, combined, pos, stability, brake,
          cliff, landslide, base_combined_risk, results, brake_calls, travelled, previous,
          object, last>>

journey_vars == <<pc, args, vehicle, speed, driver_behavior, combined, pos, stability,
                  brake, cliff, landslide, base_combined_risk, results, brake_calls, travelled,
                  previous>>

Journeys == {1, 2}

NoArgs == [route |-> <<>>, vehicle |-> "Bus", environment |-> "Normal",
           speed |-> NoSpeed, driver_behavior |-> None]

NoDict == [none |-> TRUE]

NoCall == [fn |-> "none"]

JourneyInit ==
    /\ pc = [j \in Journeys |-> "NotStarted"]
    /\ args = [j \in Journeys |-> NoArgs]
    /\ vehicle = [j \in Journeys |-> VehicleSimulator]
    /\ speed = [j \in Journeys |-> 0]
    /\ driver_behavior = [j \in Journeys |-> driver_behaviors("normal")]
    /\ combined = [j \in Journeys |-> <<>>]
    /\ pos = [j \in Journeys |-> 0]
    /\ stability = [j \in Journeys |-> NoDict]
    /\ brake = [j \in Journeys |-> NoDict]
    /\ cliff = [j \in Journeys |-> NoDict]
    /\ landslide = [j \in Journeys |-> NoDict]
    /\ base_combined_risk = [j \in Journeys |-> 0]
    /\ results = [j \in Journeys |-> <<>>]
    /\ brake_calls = [j \in Journeys |-> <<>>]
    /\ travelled = [j \in Journeys |-> <<>>]
    /\ previous = [j \in Journeys |-> <<>>]

\* lines 446-447: the speed in use, 90% of the maximum safe speed by default.
SpeedInUse(a) ==
    IF a.speed = NoSpeed
    THEN vehicle_params(a.vehicle).Max_Safe_Speed_Hills_kmh * 9
    ELSE a.speed

\* lines 449-455: the behavior in use, all flags off and 'Medium' by default.
BehaviorInUse(a) ==
    IF a.driver_behavior = None
    THEN [is_night |-> FALSE, is_overspeeding |-> FALSE,
          poor_visibility |-> FALSE, driver_experience |-> "Medium"]
    ELSE driver_behaviors(a.driver_behavior)

\* line 460: the merged table of a call.
Combined(a) == merge(road_data_of(a.route), road_characteristics_of(a.route))

\* The call with a negative slope for a downhill row, as the brake model's
\* docstring describes its argument.
BrakeCallWithSignedSlope(self, vp, seg, spd) ==
    calculate_brake_failure_risk(self, vp,
        IF seg.is_downhill THEN 0 - seg.slope_pct ELSE seg.slope_pct,
        seg.segment_distance, spd, seg.is_downhill)

\* lines 495-500: the call of the brake model for a row with locals seg.
BrakeCall(self, vp, seg, spd) ==
    calculate_brake_failure_risk(self, vp,
        IF seg.is_downhill THEN seg.slope_pct ELSE 0 - seg.slope_pct,
        seg.segment_distance, spd, seg.is_downhill)

\* A call that works on the simulator the previous call left, creating none.
CallOnKeptSimulator(j, a) ==
    /\ \/ pc[j] = "NotStarted"
       \/ pc[j] = "Completed" /\ a.route = args[j].route
    /\ Len(a.route) > 0
    /\ args' = [args EXCEPT ![j] = a]
    /\ vehicle' = vehicle
    /\ speed' = [speed EXCEPT ![j] = SpeedInUse(a)]
    /\ driver_behavior' = [driver_behavior EXCEPT ![j] = BehaviorInUse(a)]
    /\ results' = [results EXCEPT ![j] = <<>>]
    /\ combined' = [combined EXCEPT ![j] = Combined(a)]
    /\ pos' = [pos EXCEPT ![j] = IF Combined(a) = <<>> THEN 0 ELSE 1]
    /\ pc' = [pc EXCEPT ![j] = IF Combined(a) = <<>> THEN "Completed" ELSE "stability"]
    /\ brake_calls' = [brake_calls EXCEPT ![j] = <<>>]
    /\ travelled' = [travelled EXCEPT ![j] = <<>>]
    /\ previous' = [previous EXCEPT ![j] =
                    IF pc[j] = "Completed" /\ args[j] = a THEN results[j] ELSE <<>>]
    /\ stability' = [stability EXCEPT ![j] = NoDict]
    /\ brake' = [brake EXCEPT ![j] = NoDict]
    /\ cliff' = [cliff EXCEPT ![j] = NoDict]
    /\ landslide' = [landslide EXCEPT ![j] = NoDict]
    /\ base_combined_risk' = [base_combined_risk EXCEPT ![j] = 0]
    /\ UNCHANGED <<object, last>>

(***************************************************************************)
(* simulate_vehicle_journey, lines 444-460: a call with arguments a.  A    *)
(* journey that has returned can be called again; a call on another route  *)
(* sets every variable as the first call on that route does, so only the   *)
(* calls on the same route are drawn for the second call.                  *)
(***************************************************************************)
Call(j, a) ==
    /\ \/ pc[j] = "NotStarted"
       \/ pc[j] = "Completed" /\ a.route = args[j].route
    /\ Len(a.route) > 0
    /\ args' = [args EXCEPT ![j] = a]
    /\ vehicle' = [vehicle EXCEPT ![j] = VehicleSimulator]
    /\ speed' = [speed EXCEPT ![j] = SpeedInUse(a)]
    /\ driver_behavior' = [driver_behavior EXCEPT ![j] = BehaviorInUse(a)]
    /\ results' = [results EXCEPT ![j] = <<>>]
    /\ combined' = [combined EXCEPT ![j] = Combined(a)]
    /\ pos' = [pos EXCEPT ![j] = IF Combined(a) = <<>> THEN 0 ELSE 1]
    /\ pc' = [pc EXCEPT ![j] = IF Combined(a) = <<>> THEN "Completed" ELSE "stability"]
    /\ brake_calls' = [brake_calls EXCEPT ![j] = <<>>]
    /\ travelled' = [travelled EXCEPT ![j] = <<>>]
    /\ previous' = [previous EXCEPT ![j] =
                    IF pc[j] = "Completed" /\ args[j] = a THEN results[j] ELSE <<>>]
    /\ stability' = [stability EXCEPT ![j] = NoDict]
    /\ brake' = [brake EXCEPT ![j] = NoDict]
    /\ cliff' = [cliff EXCEPT ![j] = NoDict]
    /\ landslide' = [landslide EXCEPT ![j] = NoDict]
    /\ base_combined_risk' = [base_combined_risk EXCEPT ![j] = 0]
    /\ UNCHANGED <<object, last>>

\* lines 462-492: the row's locals and the stability model.
Stability(j) ==
    /\ pc[j] = "stability"
    /\ LET seg == SegmentLocals(combined[j], pos[j])
       IN  stability' = [stability EXCEPT ![j] =
               calculate_stability_risk(vehicle_params(args[j].vehicle), seg.slope_pct,
                   seg.road_width, seg.curve_sharpness, speed[j],
                   environment_conditions(args[j].environment).Road_Friction)]
    /\ pc' = [pc EXCEPT ![j] = "brake"]
    /\ UNCHANGED <<args, vehicle, speed, driver_behavior, combined, pos, brake, cliff,
                   landslide, base_combined_risk, results, brake_calls, travelled, previous,
                   object, last>>

\* The loop invoking the brake model for the downhill rows only.
BrakeOnlyDownhill(j) ==
    /\ pc[j] = "brake"
    /\ LET seg == SegmentLocals(combined[j], pos[j])
           out == BrakeCall(vehicle[j], vehicle_params(args[j].vehicle), seg, speed[j])
       IN  IF seg.is_downhill
           THEN /\ vehicle' = [vehicle EXCEPT ![j] = out.self]
                /\ brake' = [brake EXCEPT ![j] = out.ret]
                /\ brake_calls' = [brake_calls EXCEPT ![j] = Append(@, pos[j])]
                /\ travelled' = [travelled EXCEPT ![j] = Append(@, seg.segment_distance)]
           ELSE /\ brake' = [brake EXCEPT ![j] = BrakeCooling(VehicleSimulator).ret]
                /\ UNCHANGED <<vehicle, brake_calls, travelled>>
    /\ pc' = [pc EXCEPT ![j] = "cliff"]
    /\ UNCHANGED <<args, speed, driver_behavior, combined, pos, stability, cliff,
                   landslide, base_combined_risk, results, previous, object, last>>

\* The brake step on one simulator shared by all journeys (that of journey 1).
BrakeOnSharedSimulator(j) ==
    /\ pc[j] = "brake"
    /\ LET seg == SegmentLocals(combined[j], pos[j])
           out == BrakeCall(vehicle[1], vehicle_params(args[j].vehicle), seg, speed[j])
       IN  /\ vehicle' = [vehicle EXCEPT ![1] = out.self]
           /\ brake' = [brake EXCEPT ![j] = out.ret]
           /\ travelled' = [travelled EXCEPT ![j] = Append(@, seg.segment_distance)]
    /\ brake_calls' = [brake_calls EXCEPT ![j] = Append(@, pos[j])]
    /\ pc' = [pc EXCEPT ![j] = "cliff"]
    /\ UNCHANGED <<args, speed, driver_behavior, combined, pos, stability, cliff,
                   landslide, base_combined_risk, results, previous, object, last>>

\* lines 494-500: the brake model, on the call's own VehicleSimulator.
Brake(j) ==
    /\ pc[j] = "brake"
    /\ LET seg == SegmentLocals(combined[j], pos[j])
           out == BrakeCall(vehicle[j], vehicle_params(args[j].vehicle), seg, speed[j])
       IN  /\ vehicle' = [vehicle EXCEPT ![j] = out.self]
           /\ brake' = [brake EXCEPT ![j] = out.ret]
           /\ travelled' = [travelled EXCEPT ![j] = Append(@, seg.segment_distance)]
    /\ brake_calls' = [brake_calls EXCEPT ![j] = Append(@, pos[j])]
    /\ pc' = [pc EXCEPT ![j] = "cliff"]
    /\ UNCHANGED <<args, speed, driver_behavior, combined, pos, stability, cliff,
                   landslide, base_combined_risk, results, previous, object, last>>

\* The cliff step creating a new VehicleSimulator for its call.
CliffOnNewSimulator(j) ==
    /\ pc[j] = "cliff"
    /\ LET seg == SegmentLocals(combined[j], pos[j])
       IN  cliff' = [cliff EXCEPT ![j] =
               calculate_cliff_fall_risk(seg.cliff_present, seg.guardrail, seg.road_width,
                   seg.visibility, speed[j], stability[j].stability_risk)]
    /\ vehicle' = [vehicle EXCEPT ![j] = VehicleSimulator]
    /\ pc' = [pc EXCEPT ![j] = "landslide"]
    /\ UNCHANGED <<args, speed, driver_behavior, combined, pos, stability, brake,
                   landslide, base_combined_risk, results, brake_calls, travelled, previous,
                   object, last>>

\* lines 502-505: the cliff model.
Cliff(j) ==
    /\ pc[j] = "cliff"
    /\ LET seg == SegmentLocals(combined[j], pos[j])
       IN  cliff' = [cliff EXCEPT ![j] =
               calculate_cliff_fall_risk(seg.cliff_present, seg.guardrail, seg.road_width,
                   seg.visibility, speed[j], stability[j].stability_risk)]
    /\ pc' = [pc EXCEPT ![j] = "landslide"]
    /\ UNCHANGED <<args, vehicle, speed, driver_behavior, combined, pos, stability, brake,
                   landslide, base_combined_risk, results, brake_calls, travelled, previous,
                   object, last>>

\* lines 507-513: the landslide model (vegetation takes its default, 'Medium').
Landslide(j) ==
    /\ pc[j] = "landslide"
    /\ LET seg == SegmentLocals(combined[j], pos[j])
           environment == environment_conditions(args[j].environment)
       IN  landslide' = [landslide EXCEPT ![j] =
               calculate_landslide_risk(seg.slope_pct, environment.Rainfall_mm,
                   environment.Soil_Type, environment.Landslide_Risk_Base, "Medium")]
    /\ pc' = [pc EXCEPT ![j] = "combine"]
    /\ UNCHANGED <<args, vehicle, speed, driver_behavior, combined, pos, stability, brake,
                   cliff, base_combined_risk, results, brake_calls, travelled, previous,
                   object, last>>

\* lines 515-521: the fusion of the four risks.
CombineRisks(stability_risk, brake_failure_risk, cliff_fall_risk, landslide_risk) ==
    (stability_risk * 25 + brake_failure_risk * 30
     + cliff_fall_risk * 25 + landslide_risk * 20) \div 100

Combine(j) ==
    /\ pc[j] = "combine"
    /\ base_combined_risk' = [base_combined_risk EXCEPT ![j] =
           CombineRisks(stability[j].stability_risk, brake[j].brake_failure_risk,
                        cliff[j].cliff_fall_risk, landslide[j].landslide_risk)]
    /\ pc' = [pc EXCEPT ![j] = "adjust"]
    /\ UNCHANGED <<args, vehicle, speed, driver_behavior, combined, pos, stability, brake,
                   cliff, landslide, results, brake_calls, travelled, previous, object, last>>

\* lines 528-546: the record of a row.
Record(segment, seg, stab, brk, clf, lsl, base, driver_adjusted) ==
    [Segment                   |-> seg.segment_id,
     Distance_km               |-> segment.Distance_KM,
     Slope_pct                 |-> seg.slope_pct,
     Is_Downhill               |-> seg.is_downhill,
     Stability_Risk            |-> stab.stability_risk,
     Brake_Failure_Risk        |-> brk.brake_failure_risk,
     Brake_Temperature_C       |-> brk.brake_temperature,
     Cliff_Fall_Risk           |-> clf.cliff_fall_risk,
     Landslide_Risk            |-> lsl.landslide_risk,
     Combined_Risk             |-> base,
     Final_Risk                |-> driver_adjusted.adjusted_risk,
     Safe_Speed_Recommendation |-> stab.safe_speed_recommendation,
     Risk_Category             |-> segment.Risk,
     Brake_Status              |-> brk.status,
     Cliff_Severity            |-> clf.severity,
     Landslide_Category        |-> lsl.risk_category]

\* The loop left at the first record whose final risk has reached 1, the
\* rows after it unprocessed.
AdjustStoppingAtFullRisk(j) ==
    /\ pc[j] = "adjust"
    /\ LET seg == SegmentLocals(combined[j], pos[j])
           b   == driver_behavior[j]
           driver_adjusted == adjust_for_driver_behavior(base_combined_risk[j],
                                  b.is_night, b.is_overspeeding, b.poor_visibility,
                                  b.driver_experience)
       IN  /\ results' = [results EXCEPT ![j] =
                   Append(@, Record(combined[j][pos[j]], seg, stability[j], brake[j],
                                    cliff[j], landslide[j], base_combined_risk[j],
                                    driver_adjusted))]
           /\ IF pos[j] < Len(combined[j]) /\ driver_adjusted.adjusted_risk < Scale
              THEN /\ pos' = [pos EXCEPT ![j] = @ + 1]
                   /\ pc' = [pc EXCEPT ![j] = "stability"]
              ELSE /\ pos' = pos
                   /\ pc' = [pc EXCEPT ![j] = "Completed"]
    /\ UNCHANGED <<args, vehicle, speed, driver_behavior, combined, stability, brake,
                   cliff, landslide, base_combined_risk, brake_calls, travelled, previous,
                   object, last>>

\* lines 523-548: the behavior adjustment, the append, and the loop's advance.
Adjust(j) ==
    /\ pc[j] = "adjust"
    /\ LET seg == SegmentLocals(combined[j], pos[j])
           b   == driver_behavior[j]
           driver_adjusted == adjust_for_driver_behavior(base_combined_risk[j],
                                  b.is_night, b.is_overspeeding, b.poor_visibility,
                                  b.driver_experience)
       IN  results' = [results EXCEPT ![j] =
               Append(@, Record(combined[j][pos[j]], seg, stability[j], brake[j],
                                cliff[j], landslide[j], base_combined_risk[j],
                                driver_adjusted))]
    /\ IF pos[j] < Len(combined[j])
       THEN /\ pos' = [pos EXCEPT ![j] = @ + 1]
            /\ pc' = [pc EXCEPT ![j] = "stability"]
       ELSE /\ pos' = pos
            /\ pc' = [pc EXCEPT ![j] = "Completed"]
    /\ UNCHANGED <<args, vehicle, speed, driver_behavior, combined, stability, brake,
                   cliff, landslide, base_combined_risk, brake_calls, travelled, previous,
                   object, last>>

Step(j) ==
    \/ Stability(j)
    \/ Brake(j)
    \/ Cliff(j)
    \/ Landslide(j)
    \/ Combine(j)
    \/ Adjust(j)

(***************************************************************************)
(* The arguments the model draws from.                                     *)
(***************************************************************************)
MaxSegments == 3

\* The routes of at most n segments over a set of kinds.
RECURSIVE Routes(_, _)
Routes(kinds, n) ==
    IF n = 0 THEN {<<>>}
    ELSE LET shorter == Routes(kinds, n - 1)
         IN  shorter \cup {Append(r, k) : r \in {x \in shorter : Len(x) = n - 1},
                                          k \in kinds}

\* The runs of the test scripts: a bus in normal weather at 40 km/h with all
\* flags off; a call that leaves speed and driver_behavior to their defaults;
\* a truck in heavy rain at 60 km/h with every flag on and a novice driver.
Scenarios ==
    {[vehicle |-> "Bus", environment |-> "Normal", speed |-> 400,
      driver_behavior |-> "normal"],
     [vehicle |-> "Bus", environment |-> "Heavy_Rain", speed |-> NoSpeed,
      driver_behavior |-> None],
     [vehicle |-> "Truck", environment |-> "Heavy_Rain", speed |-> 600,
      driver_behavior |-> "extreme"]}

ArgumentsOver(routes, scenarios) ==
    {[route |-> r, vehicle |-> s.vehicle, environment |-> s.environment,
      speed |-> s.speed, driver_behavior |-> s.driver_behavior]
     : r \in routes, s \in scenarios}

Arguments == ArgumentsOver(Routes(SegmentKinds, MaxSegments) \ {<<>>}, Scenarios)

Init ==
    /\ JourneyInit
    /\ object = [vp |-> vehicle_params("Bus"), self |-> VehicleSimulator, calls |-> 0,
                 run |-> 0]
    /\ last = NoCall

Next ==
    \/ \E a \in Arguments : Call(1, a)
    \/ Step(1)

Spec == Init /\ [][Next]_vars

(***************************************************************************)
(* One call of simulate_vehicle_journey, followed to its return.  The loop *)
(* body has no wait and no input: once called, the journey takes its next  *)
(* step as long as it has one (weak fairness of Step).                     *)
(***************************************************************************)
OnceArguments ==
    ArgumentsOver(Routes(SegmentKinds, MaxSegments) \ {<<>>},
                  {s \in Scenarios : s.vehicle = "Truck"})

NextOnce ==
    \/ \E a \in OnceArguments : pc[1] = "NotStarted" /\ Call(1, a)
    \/ Step(1)

SpecOnce == Init /\ [][NextOnce]_vars /\ WF_vars(Step(1))

(***************************************************************************)
(* Two journeys whose steps interleave, as when scenarios are compared on  *)
(* separate workers.                                                       *)
(***************************************************************************)
MaxParSegments == 2

ParArguments ==
    ArgumentsOver(Routes({"flat", "signed"}, MaxParSegments) \ {<<>>},
                  {s \in Scenarios : s.driver_behavior # None})

\* Each worker runs one journey.
NextPar ==
    \E j \in Journeys :
        \/ \E a \in ParArguments : pc[j] = "NotStarted" /\ Call(j, a)
        \/ Step(j)

SpecPar == Init /\ [][NextPar]_vars

(***************************************************************************)
(* Journeys over road data whose distances are not increasing: routes with *)
(* rows at the distance of the row before ("climb") and below it ("back"). *)
(***************************************************************************)
DistanceArguments ==
    ArgumentsOver(Routes({"flat", "climb", "back", "signed"}, MaxSegments) \ {<<>>},
                  {s \in Scenarios : s.vehicle = "Truck"})

NextDistance ==
    \/ \E a \in DistanceArguments : pc[1] = "NotStarted" /\ Call(1, a)
    \/ Step(1)

SpecDistance == Init /\ [][NextDistance]_vars

(***************************************************************************)
(* A baseline run followed by the identical run at night with overspeeding,*)
(* as the scenario script runs them: journey 1 is the baseline, journey 2  *)
(* the run with the two flags on, called once the baseline has returned.   *)
(***************************************************************************)
\* The behavior dictionary that differs from the named one in having
\* is_night and is_overspeeding on.
WithNightAndOverspeeding(name) ==
    CASE name = "normal"     -> "danger"
      [] name = "novice_fog" -> "extreme"
      [] name = "expert"     -> "expert_danger"

BaselineScenarios ==
    {[vehicle |-> "Bus", environment |-> "Normal", speed |-> 400,
      driver_behavior |-> "normal"],
     [vehicle |-> "Truck", environment |-> "Heavy_Rain", speed |-> 600,
      driver_behavior |-> "novice_fog"],
     [vehicle |-> "Car", environment |-> "Normal", speed |-> 700,
      driver_behavior |-> "expert"]}

BaselineArguments ==
    ArgumentsOver(Routes(SegmentKinds, MaxSegments) \ {<<>>}, BaselineScenarios)

CallBaseline ==
    \E a \in BaselineArguments : pc[1] = "NotStarted" /\ Call(1, a)

CallFlagged ==
    /\ pc[1] = "Completed"
    /\ pc[2] = "NotStarted"
    /\ Call(2, [args[1] EXCEPT !.driver_behavior = WithNightAndOverspeeding(@)])

NextCompare ==
    \/ CallBaseline
    \/ Step(1)
    \/ CallFlagged
    \/ Step(2)

SpecCompare == Init /\ [][NextCompare]_vars

\* results['Final_Risk'].mean(): the sum of the column over its length.
RECURSIVE Sum(_)
Sum(values) == IF values = <<>> THEN 0 ELSE Head(values) + Sum(Tail(values))

Column(simulation_results, name) ==
    [i \in DOMAIN simulation_results |-> simulation_results[i][name]]

mean(values) == Sum(values) \div Len(values)

(***************************************************************************)
(* Direct use of the models: a caller holds one VehicleSimulator (object)  *)
(* and calls its methods and the static methods of EnvironmentalHazards.   *)
(* last records the call: its function, arguments, the object's tracking   *)
(* state before the call, and the returned dictionary.  object.calls       *)
(* counts the brake calls and object.run those since the last downhill one.*)
(***************************************************************************)
DirectInit ==
    /\ JourneyInit
    /\ object \in {[vp |-> vehicle_params(v), self |-> VehicleSimulator, calls |-> 0,
                     run |-> 0]
                   : v \in {"Car", "Bus", "Truck"}}
    /\ last = NoCall

MaxDirectCalls == 4

DirectBrake(slope, segment_distance, spd, is_downhill) ==
    /\ object.calls < MaxDirectCalls
    /\ LET out == calculate_brake_failure_risk(object.self, object.vp, slope,
                                               segment_distance, spd, is_downhill)
       IN  /\ object' = [object EXCEPT !.self = out.self, !.calls = @ + 1,
                                        !.run = IF is_downhill THEN 0 ELSE @ + 1]
           /\ last' = [fn     |-> "calculate_brake_failure_risk",
                       arg    |-> [slope |-> slope, segment_distance |-> segment_distance,
                                   speed |-> spd, is_downhill |-> is_downhill],
                       before |-> object.self,
                       ret    |-> out.ret]
    /\ UNCHANGED journey_vars

DirectStability(slope, road_width, curve_sharpness, spd, road_friction) ==
    /\ last' = [fn     |-> "calculate_stability_risk",
                arg    |-> [slope |-> slope, road_width |-> road_width,
                            curve_sharpness |-> curve_sharpness, speed |-> spd,
                            road_friction |-> road_friction],
                before |-> object.self,
                ret    |-> calculate_stability_risk(object.vp, slope, road_width,
                               curve_sharpness, spd, road_friction)]
    /\ UNCHANGED <<journey_vars, object>>

DirectCliff(cliff_present, guardrail, road_width, visibility, spd, stability_risk) ==
    /\ last' = [fn     |-> "calculate_cliff_fall_risk",
                arg    |-> [cliff_present |-> cliff_present, guardrail |-> guardrail,
                            road_width |-> road_width, visibility |-> visibility,
                            speed |-> spd, stability_risk |-> stability_risk],
                before |-> object.self,
                ret    |-> calculate_cliff_fall_risk(cliff_present, guardrail, road_width,
                               visibility, spd, stability_risk)]
    /\ UNCHANGED <<journey_vars, object>>

DirectAdjust(base_risk, is_night, is_overspeeding, poor_visibility, driver_experience) ==
    /\ last' = [fn     |-> "adjust_for_driver_behavior",
                arg    |-> [base_risk |-> base_risk, is_night |-> is_night,
                            is_overspeeding |-> is_overspeeding,
                            poor_visibility |-> poor_visibility,
                            driver_experience |-> driver_experience],
                before |-> object.self,
                ret    |-> adjust_for_driver_behavior(base_risk, is_night,
                               is_overspeeding, poor_visibility, driver_experience)]
    /\ UNCHANGED <<journey_vars, object>>

DirectLandslide(slope, rainfall, soil_type, base_risk, vegetation) ==
    /\ last' = [fn     |-> "calculate_landslide_risk",
                arg    |-> [slope |-> slope, rainfall |-> rainfall,
                            soil_type |-> soil_type, base_risk |-> base_risk,
                            vegetation |-> vegetation],
                before |-> object.self,
                ret    |-> calculate_landslide_risk(slope, rainfall, soil_type,
                               base_risk, vegetation)]
    /\ UNCHANGED <<journey_vars, object>>

\* The grid of risk values 0, 1/RiskSteps, ..., 1.
RiskSteps == 8

RiskGrid == {(k * Scale) \div RiskSteps : k \in 0..RiskSteps}

\* The brake model and, between its calls, the stability and cliff models
\* of the same object.
NextBrake ==
    \/ \E slope \in {0 - 50, 0, 30}, segment_distance \in {11, 1000},
          is_downhill \in BOOLEAN :
          DirectBrake(slope, segment_distance, 400, is_downhill)
    \/ \E curve_sharpness \in {"Gentle", "Hairpin"} :
          DirectStability(30, 40, curve_sharpness, 400, 85)
    \/ \E guardrail \in BOOLEAN :
          DirectCliff(TRUE, guardrail, 40, 30, 700, Scale \div 2)

SpecBrake == DirectInit /\ [][NextBrake]_vars

\* One call of the cliff model on arguments drawn from a grid.
NextCliff ==
    /\ last = NoCall
    /\ \E cliff_present \in BOOLEAN, guardrail \in BOOLEAN,
       road_width \in {0, 40, 70, 90}, visibility \in {0, 30, 80, 120},
       spd \in {0, 400, 700, 900}, stability_risk \in RiskGrid :
          DirectCliff(cliff_present, guardrail, road_width, visibility, spd,
                      stability_risk)

SpecCliff == DirectInit /\ [][NextCliff]_vars

\* One call of the behavior adjustment on arguments drawn from a grid.
NextAdjust ==
    /\ last = NoCall
    /\ \E base_risk \in RiskGrid, is_night \in BOOLEAN, is_overspeeding \in BOOLEAN,
       poor_visibility \in BOOLEAN,
       driver_experience \in {"Novice", "Medium", "Expert", "Veteran"} :
          DirectAdjust(base_risk, is_night, is_overspeeding, poor_visibility,
                       driver_experience)

SpecAdjust == DirectInit /\ [][NextAdjust]_vars

\* The rainfalls drawn (mm): both sides of each band's edge, and 0.
RainfallGrid == {0, 10, 24, 25, 74, 75, 149, 150, 160}

\* One call of the landslide model on arguments drawn from a grid; the base
\* risks (hundredths) include one above 1.
NextLandslide ==
    /\ last = NoCall
    /\ \E slope \in {0 - 50, 0, 20, 45}, rainfall \in RainfallGrid,
          soil_type \in {"Rocky", "Loose", "Mixed", "Clay"},
          base_risk \in {0, 30, 90, 150},
          vegetation \in {"Low", "Medium", "High", "Sparse"} :
          DirectLandslide(slope, rainfall, soil_type, base_risk, vegetation)

SpecLandslide == DirectInit /\ [][NextLandslide]_vars

\* One call of a model that looks a category up, on the categories of its
\* table and on others: a misspelt one, str() of a missing cell, a new one.
NextCategorical ==
    /\ last = NoCall
    /\ \/ \E slope \in {0, 30}, road_width \in {40, 70},
             curve_sharpness \in {"Gentle", "Moderate", "Sharp", "Very_Sharp",
                                  "VerySharp", "nan", "Hairpin"},
             spd \in {400, 700}, road_friction \in {50, 85} :
             DirectStability(slope, road_width, curve_sharpness, spd, road_friction)
       \/ \E slope \in {0, 45}, rainfall \in {10, 160},
             soil_type \in {"Rocky", "Loose", "Mixed", "Clay", "rocky"},
             base_risk \in {30, 90},
             vegetation \in {"Low", "Medium", "High", "Sparse", "None"} :
             DirectLandslide(slope, rainfall, soil_type, base_risk, vegetation)
       \/ \E base_risk \in RiskGrid, is_night \in BOOLEAN, is_overspeeding \in BOOLEAN,
             poor_visibility \in BOOLEAN,
             driver_experience \in {"Novice", "Medium", "Expert", "Veteran", "novice"} :
             DirectAdjust(base_risk, is_night, is_overspeeding, poor_visibility,
                          driver_experience)

SpecCategorical == DirectInit /\ [][NextCategorical]_vars

(***************************************************************************)
(* Properties.                                                             *)
(***************************************************************************)
IsRisk(x) == 0 <= x /\ x <= Scale

\* The rows whose brake step has been taken by journey j.
BrakeStepsDone(j) ==
    IF pc[j] = "NotStarted" THEN 0
    ELSE IF pc[j] \in {"stability", "brake"} THEN pos[j] - 1
    ELSE pos[j]

\* The tracking state of a fresh VehicleSimulator after the brake model has
\* been applied to rows 1..k of the call's table, one after the other.
RECURSIVE VehicleAfter(_, _)
VehicleAfter(a, k) ==
    IF k = 0 THEN VehicleSimulator
    ELSE BrakeCall(VehicleAfter(a, k - 1), vehicle_params(a.vehicle),
                   SegmentLocals(Combined(a), k), SpeedInUse(a)).self

\* C1: every record of a journey has its stability, brake failure, cliff
\* fall, landslide, combined and final risk in [0, 1].  (All speeds,
\* frictions and base risks drawn are in their ranges; the formula also
\* covers the rows whose slope magnitude is negative.)
C1_RisksInUnitInterval ==
    \A j \in Journeys : \A i \in DOMAIN results[j] :
        LET r == results[j][i]
        IN  /\ IsRisk(r.Stability_Risk)
            /\ IsRisk(r.Brake_Failure_Risk)
            /\ IsRisk(r.Cliff_Fall_Risk)
            /\ IsRisk(r.Landslide_Risk)
            /\ IsRisk(r.Combined_Risk)
            /\ IsRisk(r.Final_Risk)

\* A record of a row with a non-negative slope magnitude whose final risk
\* was clamped to 1 and whose stability risk was clamped to 1.
C1_Witness ==
    \E i \in DOMAIN results[1] :
        /\ results[1][i].Slope_pct >= 0
        /\ results[1][i].Final_Risk = Scale
        /\ results[1][i].Combined_Risk < Scale
        /\ results[1][i].Combined_Risk > 0

\* C2: the brake model is invoked once for each row, in the order of the
\* table, and each invocation works on the state the previous one left in
\* the journey's own VehicleSimulator: the invocations so far are for rows
\* 1..k, k the number of brake steps taken, and the simulator's state is
\* that of a fresh simulator after the model ran on rows 1..k in turn.
C2_BrakeOncePerSegmentInOrder ==
    \A j \in Journeys :
        /\ brake_calls[j] = [i \in 1..BrakeStepsDone(j) |-> i]
        /\ pc[j] = "Completed" => brake_calls[j] = [i \in 1..Len(args[j].route) |-> i]
        /\ pc[j] # "NotStarted" => vehicle[j] = VehicleAfter(args[j], BrakeStepsDone(j))

\* A completed journey of three rows, heated by a row, then cooled by an uphill row.
C2_Witness ==
    /\ pc[1] = "Completed"
    /\ brake_calls[1] = <<1, 2, 3>>
    /\ args[1].route = <<"signed", "signed", "climb">>
    /\ vehicle[1].brake_temperature > AmbientTemperature

\* C3: a completed journey over N segments has N records, the i-th with the
\* Segment id of the i-th segment of the road data; while it runs it has one
\* record for each row already passed.
C3_OneRecordPerSegmentInOrder ==
    \A j \in Journeys :
        /\ pc[j] \notin {"NotStarted", "Completed"} => Len(results[j]) = pos[j] - 1
        /\ pc[j] = "Completed" =>
              /\ Len(results[j]) = Len(args[j].route)
              /\ \A i \in DOMAIN results[j] :
                     results[j][i].Segment = road_data_of(args[j].route)[i].Segment

\* A completed journey over a route with a row that has no characteristics.
C3_Witness ==
    /\ pc[1] = "Completed"
    /\ Len(results[1]) = 3
    /\ args[1].route[2] = "climb"

\* C4: for the bus in normal weather at 40 km/h with all flags off, on a
\* route with exactly one steep descent (marker negative, magnitude 50%,
\* 0.11 km) that is not the first row, the descent's record has a higher
\* Brake_Failure_Risk than each adjacent flat row's and a higher
\* Brake_Temperature_C than the preceding row's.
C4_DescentHeatsBrakes ==
    \A j \in Journeys :
        (/\ pc[j] = "Completed"
         /\ args[j].vehicle = "Bus" /\ args[j].environment = "Normal"
         /\ args[j].speed = 400 /\ args[j].driver_behavior = "normal")
        =>
        \A i \in 2..Len(args[j].route) :
            (/\ args[j].route[i] = "descent"
             /\ \A n \in DOMAIN args[j].route : n # i => args[j].route[n] # "descent")
            =>
            /\ \A n \in {i - 1, i + 1} \cap DOMAIN args[j].route :
                   args[j].route[n] = "flat" =>
                       results[j][i].Brake_Failure_Risk > results[j][n].Brake_Failure_Risk
            /\ results[j][i].Brake_Temperature_C > results[j][i - 1].Brake_Temperature_C

\* C5 as stated: the brake temperature is at least 20 after every brake
\* step, and within a run of consecutive non-downhill steps each step after
\* the first leaves it strictly below what the step before left.
C5_StrictlyDecreasingWhileNotDownhill ==
    /\ object.self.brake_temperature >= AmbientTemperature
    /\ (last.fn = "calculate_brake_failure_risk" /\ object.run >= 2) =>
           object.self.brake_temperature < last.before.brake_temperature

\* C5, amended: the brake temperature is at least 20 after every brake
\* step, and a non-downhill step never raises it: it leaves it strictly
\* lower when it was above 20 and at 20 when it was 20.
C5_CoolingTowardsFloor ==
    /\ object.self.brake_temperature >= AmbientTemperature
    /\ (last.fn = "calculate_brake_failure_risk" /\ ~last.arg.is_downhill) =>
           /\ object.self.brake_temperature <= last.before.brake_temperature
           /\ last.before.brake_temperature > AmbientTemperature =>
                  object.self.brake_temperature < last.before.brake_temperature
           /\ last.before.brake_temperature = AmbientTemperature =>
                  object.self.brake_temperature = AmbientTemperature

\* The second step of a non-downhill run, cooling brakes that were still hot.
C5_Witness ==
    /\ last.fn = "calculate_brake_failure_risk"
    /\ object.run >= 2
    /\ last.before.brake_temperature > AmbientTemperature
    /\ object.self.brake_temperature < last.before.brake_temperature

\* C6: a call with the arguments of the call before it starts from a
\* simulator at 20 degrees and usage 0 and returns the same records.
C6_SameArgumentsSameRecords ==
    \A j \in Journeys :
        /\ (pc[j] = "stability" /\ pos[j] = 1) => vehicle[j] = VehicleSimulator
        /\ (pc[j] = "Completed" /\ previous[j] # <<>>) => results[j] = previous[j]

\* A second call has returned, and the first had left hot brakes behind.
C6_Witness ==
    /\ pc[1] = "Completed"
    /\ previous[1] # <<>>
    /\ results[1] = previous[1]
    /\ vehicle[1].brake_temperature > AmbientTemperature
    /\ vehicle[1].cumulative_brake_usage > 0

\* The record of row i of a call with arguments a that runs alone.
RecordAlone(a, i) ==
    LET seg         == SegmentLocals(Combined(a), i)
        vp          == vehicle_params(a.vehicle)
        environment == environment_conditions(a.environment)
        b           == BehaviorInUse(a)
        stab        == calculate_stability_risk(vp, seg.slope_pct, seg.road_width,
                           seg.curve_sharpness, SpeedInUse(a), environment.Road_Friction)
        brk         == BrakeCall(VehicleAfter(a, i - 1), vp, seg, SpeedInUse(a)).ret
        clf         == calculate_cliff_fall_risk(seg.cliff_present, seg.guardrail,
                           seg.road_width, seg.visibility, SpeedInUse(a),
                           stab.stability_risk)
        lsl         == calculate_landslide_risk(seg.slope_pct, environment.Rainfall_mm,
                           environment.Soil_Type, environment.Landslide_Risk_Base,
                           "Medium")
        base        == CombineRisks(stab.stability_risk, brk.brake_failure_risk,
                                    clf.cliff_fall_risk, lsl.landslide_risk)
    IN  Record(Combined(a)[i], seg, stab, brk, clf, lsl, base,
               adjust_for_driver_behavior(base, b.is_night, b.is_overspeeding,
                                          b.poor_visibility, b.driver_experience))

\* C7: with the steps of two journeys interleaved, the records of each are
\* those of the same call running alone, and its simulator is in the state
\* its own brake steps alone produce.
C7_InterleavedJourneysIndependent ==
    \A j \in Journeys :
        /\ \A i \in DOMAIN results[j] : results[j][i] = RecordAlone(args[j], i)
        /\ pc[j] = "Completed" => Len(results[j]) = Len(args[j].route)
        /\ pc[j] # "NotStarted" => vehicle[j] = VehicleAfter(args[j], BrakeStepsDone(j))

\* Both journeys are in their second row on different arguments, each with
\* brakes it has heated itself, neither finished.
C7_Witness ==
    /\ pc[1] = "cliff" /\ pos[1] = 2
    /\ pc[2] = "adjust" /\ pos[2] = 2
    /\ args[1] # args[2]
    /\ vehicle[1].brake_temperature > AmbientTemperature
    /\ vehicle[2].brake_temperature > AmbientTemperature
    /\ vehicle[1] # vehicle[2]

\* C8: a stability, cliff, landslide, fusion or behavior-adjustment step of
\* a journey leaves the brake temperature and the cumulative brake usage of
\* its simulator as they were.
C8_OnlyBrakeModelChangesBrakeState ==
    [][\A j \in Journeys :
          (/\ pc[j] \in {"stability", "cliff", "landslide", "combine", "adjust"}
           /\ pc'[j] # pc[j])
          => vehicle'[j] = vehicle[j]]_vars

\* A row's record has been appended and the simulator still carries the
\* heat and the usage of the brake steps.
C8_Witness ==
    /\ pc[1] = "stability" /\ pos[1] = 3
    /\ vehicle[1].brake_temperature > AmbientTemperature
    /\ vehicle[1].cumulative_brake_usage > 0

AdjustedRisk(arg) ==
    adjust_for_driver_behavior(arg.base_risk, arg.is_night, arg.is_overspeeding,
                               arg.poor_visibility, arg.driver_experience).adjusted_risk

\* C9: for a combined risk in [0, 1], any experience level and any setting
\* of the other two flags, the adjusted risk with one flag off is at most
\* the adjusted risk with that flag on.
C9_FlagNeverDecreasesRisk ==
    last.fn = "adjust_for_driver_behavior" =>
        /\ ~last.arg.is_night =>
               last.ret.adjusted_risk <= AdjustedRisk([last.arg EXCEPT !.is_night = TRUE])
        /\ ~last.arg.is_overspeeding =>
               last.ret.adjusted_risk
                   <= AdjustedRisk([last.arg EXCEPT !.is_overspeeding = TRUE])
        /\ ~last.arg.poor_visibility =>
               last.ret.adjusted_risk
                   <= AdjustedRisk([last.arg EXCEPT !.poor_visibility = TRUE])

\* A call with night off for an expert, whose result is below 1 and
\* strictly below the result with night on.
C9_Witness ==
    /\ last.fn = "adjust_for_driver_behavior"
    /\ ~last.arg.is_night /\ last.arg.is_overspeeding
    /\ last.arg.driver_experience = "Expert"
    /\ last.ret.adjusted_risk > 0
    /\ last.ret.adjusted_risk < AdjustedRisk([last.arg EXCEPT !.is_night = TRUE])

CliffRisk(arg) ==
    calculate_cliff_fall_risk(arg.cliff_present, arg.guardrail, arg.road_width,
                              arg.visibility, arg.speed, arg.stability_risk).cliff_fall_risk

\* C10 as stated: without a cliff the risk is 0 and the severity 'None';
\* with a cliff the risk with a guardrail is strictly below the risk
\* without one, all other arguments equal.
C10_GuardrailStrictlyLower ==
    last.fn = "calculate_cliff_fall_risk" =>
        /\ ~last.arg.cliff_present =>
               last.ret.cliff_fall_risk = 0 /\ last.ret.severity = "None"
        /\ (last.arg.cliff_present /\ last.arg.guardrail) =>
               last.ret.cliff_fall_risk < CliffRisk([last.arg EXCEPT !.guardrail = FALSE])

\* C10, amended: without a cliff the risk is 0 and the severity 'None';
\* with a cliff, for a road width, visibility and speed >= 0 and a
\* stability risk in [0, 1], the risk with a guardrail is never above the
\* risk without one, and strictly below it unless the road is at least 7 m
\* wide, the visibility at least 80 m, the speed 0 and the stability risk
\* 0, in which case both are 0.
C10_GuardrailLowerUnlessZero ==
    last.fn = "calculate_cliff_fall_risk" =>
        /\ ~last.arg.cliff_present =>
               last.ret.cliff_fall_risk = 0 /\ last.ret.severity = "None"
        /\ (last.arg.cliff_present /\ last.arg.guardrail) =>
               LET unguarded == CliffRisk([last.arg EXCEPT !.guardrail = FALSE])
                   nothing   == /\ last.arg.road_width >= 70
                                /\ last.arg.visibility >= 80
                                /\ last.arg.speed = 0
                                /\ last.arg.stability_risk = 0
               IN  IF nothing
                   THEN last.ret.cliff_fall_risk = 0 /\ unguarded = 0
                   ELSE last.ret.cliff_fall_risk < unguarded

\* A call for a cliff with a guardrail on a narrow road in poor visibility.
C10_Witness ==
    /\ last.fn = "calculate_cliff_fall_risk"
    /\ last.arg.cliff_present /\ last.arg.guardrail
    /\ last.arg.road_width = 40 /\ last.arg.visibility = 30
    /\ last.ret.cliff_fall_risk > 0
    /\ last.ret.cliff_fall_risk < CliffRisk([last.arg EXCEPT !.guardrail = FALSE])

\* C11: for a cliff without a guardrail on a road 4.0 m wide, with 30 m of
\* visibility, at 70 km/h, the cliff model returns a risk above 0.5 and the
\* severity HIGH or EXTREME, whatever stability risk in [0, 1] it is given.
C11_DangerousCliffIsHighOrExtreme ==
    (/\ last.fn = "calculate_cliff_fall_risk"
     /\ last.arg.cliff_present /\ ~last.arg.guardrail
     /\ last.arg.road_width = 40 /\ last.arg.visibility = 30
     /\ last.arg.speed = 700
     /\ IsRisk(last.arg.stability_risk))
    =>
    /\ last.ret.cliff_fall_risk > Scale \div 2
    /\ last.ret.severity \in {"HIGH - Very dangerous", "EXTREME - Immediate danger"}

LandslideRisk(arg) ==
    calculate_landslide_risk(arg.slope, arg.rainfall, arg.soil_type, arg.base_risk,
                             arg.vegetation).landslide_risk

\* C12: for a slope, soil type, vegetation and base risk >= 0, the landslide
\* risk at a rainfall is at most the landslide risk at any greater rainfall.
C12_LandslideMonotoneInRainfall ==
    (last.fn = "calculate_landslide_risk" /\ last.arg.base_risk >= 0) =>
        \A more \in RainfallGrid :
            more >= last.arg.rainfall =>
                last.ret.landslide_risk <= LandslideRisk([last.arg EXCEPT !.rainfall = more])

\* A call in light rain whose risk is below 1 and strictly below the risk of
\* the same segment in the heaviest rain.
C12_Witness ==
    /\ last.fn = "calculate_landslide_risk"
    /\ last.arg.rainfall = 24 /\ last.arg.base_risk = 90
    /\ last.ret.landslide_risk > 0
    /\ last.ret.landslide_risk < LandslideRisk([last.arg EXCEPT !.rainfall = 160])
    /\ LandslideRisk([last.arg EXCEPT !.rainfall = 160]) < Scale

\* C13: when the baseline run and the run that differs from it only in
\* is_night and is_overspeeding being on have both returned, and some record
\* of the baseline has a Final_Risk strictly between 0 and 1, the mean
\* Final_Risk of the flagged run is strictly greater than the baseline's.
C13_NightAndOverspeedingRaiseMean ==
    (/\ pc[1] = "Completed" /\ pc[2] = "Completed"
     /\ \E i \in DOMAIN results[1] :
            0 < results[1][i].Final_Risk /\ results[1][i].Final_Risk < Scale)
    => mean(Column(results[2], "Final_Risk")) > mean(Column(results[1], "Final_Risk"))

\* Both runs have returned; the baseline has a record clamped at 1, which
\* the flags cannot raise, and a record below 1, which they raise.
C13_Witness ==
    /\ pc[1] = "Completed" /\ pc[2] = "Completed"
    /\ args[2].driver_behavior = "extreme"
    /\ \E i \in DOMAIN results[1] : results[1][i].Final_Risk = Scale
    /\ \E i \in DOMAIN results[1] :
           /\ results[1][i].Final_Risk < Scale
           /\ results[2][i].Final_Risk > results[1][i].Final_Risk
    /\ mean(Column(results[2], "Final_Risk")) > mean(Column(results[1], "Final_Risk"))

\* C14: a completed journey has a record for every row, and for a row with
\* no row in the characteristics table it has used road width 7.0, curve
\* sharpness 'Moderate', no cliff, a guardrail and visibility 80: the row's
\* Stability_Risk is that of the stability model on width 7.0 and 'Moderate'.
C14_MissingAttributesUseDefaults ==
    \A j \in Journeys :
        pc[j] = "Completed" =>
            /\ Len(results[j]) = Len(args[j].route)
            /\ \A i \in DOMAIN results[j] :
                   ~SegmentKind(args[j].route[i]).row =>
                       LET seg == SegmentLocals(combined[j], i)
                       IN  /\ seg.road_width = 70
                           /\ seg.curve_sharpness = "Moderate"
                           /\ ~seg.cliff_present
                           /\ seg.guardrail
                           /\ seg.visibility = 80
                           /\ results[j][i].Stability_Risk =
                                  calculate_stability_risk(
                                      vehicle_params(args[j].vehicle), seg.slope_pct, 70,
                                      "Moderate", speed[j],
                                      environment_conditions(args[j].environment).Road_Friction
                                  ).stability_risk

\* C15: the distance passed to the brake model is 0.11 km for the first row;
\* for a later row it is the row's Distance(KM) less the previous row's when
\* that is positive, and 0.11 km when it is zero or negative.  It is always
\* positive, and a journey over out-of-order distances completes with a
\* record for every row.
C15_TravelDistancePositive ==
    \A j \in Journeys :
        LET road_data == road_data_of(args[j].route)
        IN  /\ \A k \in DOMAIN travelled[j] :
                   LET difference == IF k = 1 THEN 0
                                     ELSE road_data[k].Distance_KM
                                          - road_data[k - 1].Distance_KM
                   IN  /\ travelled[j][k] > 0
                       /\ k = 1 => travelled[j][k] = 11
                       /\ (k > 1 /\ difference > 0) => travelled[j][k] = difference
                       /\ (k > 1 /\ difference <= 0) => travelled[j][k] = 11
            /\ Len(travelled[j]) = BrakeStepsDone(j)
            /\ pc[j] = "Completed" =>
                   /\ Len(travelled[j]) = Len(road_data)
                   /\ Len(results[j]) = Len(road_data)

\* A completed journey whose second row is at the first row's distance and
\* whose third row is 0.3 km behind it: both got 0.11 km.
C15_Witness ==
    /\ pc[1] = "Completed"
    /\ args[1].route = <<"signed", "climb", "back">>
    /\ travelled[1] = <<11, 11, 11>>
    /\ Len(results[1]) = 3

\* C16: a call with a category that its table does not list returns, and
\* has used the fallback weight: curve factor 0.5 (lateral risk = 0.5 x
\* speed ratio, recommended speed = half the maximum safe speed), soil
\* factor 0.6, vegetation factor 0.7, experience factor 1.0 (multiplier =
\* 1 + the flags' increments).
C16_UnknownCategoryUsesFallback ==
    /\ (/\ last.fn = "calculate_stability_risk"
        /\ last.arg.curve_sharpness \notin {"Gentle", "Moderate", "Sharp", "Very_Sharp"})
       => /\ last.ret.lateral_risk = MulDiv(500000, last.ret.speed_ratio, Scale)
          /\ last.ret.safe_speed_recommendation
                 = object.vp.Max_Safe_Speed_Hills_kmh * 500000
          /\ IsRisk(last.ret.stability_risk)
    /\ (/\ last.fn = "calculate_landslide_risk"
        /\ last.arg.soil_type \notin {"Rocky", "Loose", "Mixed"})
       => /\ last.ret.soil_contribution = 600000
          /\ IsRisk(last.ret.landslide_risk)
    /\ (/\ last.fn = "calculate_landslide_risk"
        /\ last.arg.vegetation \notin {"Low", "Medium", "High"})
       => last.ret.landslide_risk
              = Min(MulDiv(last.arg.base_risk,
                           last.ret.slope_contribution * 35
                           + last.ret.soil_contribution * 30
                           + last.ret.rainfall_contribution * 25
                           + 700000 * 10,
                           10000),
                    Scale)
    /\ (/\ last.fn = "adjust_for_driver_behavior"
        /\ last.arg.driver_experience \notin {"Novice", "Medium", "Expert"})
       => /\ last.ret.risk_multiplier
                 = Scale + (IF last.arg.is_night THEN 350000 ELSE 0)
                         + (IF last.arg.is_overspeeding THEN 500000 ELSE 0)
                         + (IF last.arg.poor_visibility THEN 400000 ELSE 0)
          /\ IsRisk(last.ret.adjusted_risk)

\* A stability call on the category 'VerySharp', which the table spells
\* 'Very_Sharp': its lateral risk is that of factor 0.5, not of 0.9.
C16_Witness ==
    /\ last.fn = "calculate_stability_risk"
    /\ last.arg.curve_sharpness = "VerySharp"
    /\ last.ret.speed_ratio > 0
    /\ last.ret.lateral_risk = MulDiv(500000, last.ret.speed_ratio, Scale)
    /\ last.ret.lateral_risk < MulDiv(900000, last.ret.speed_ratio, Scale)

\* The level a reported status stands for; 'Cooling' names no warning and
\* is taken as a normal status.
StatusLevel(status) ==
    CASE status = "CRITICAL - Brake Failure Imminent" -> 3
      [] status = "WARNING - Brakes Overheating"      -> 2
      [] status = "Caution - Elevated Temperature"    -> 1
      [] status \in {"Normal", "Cooling"}             -> 0

\* C17: the status a brake step reports follows from the brake temperature
\* the step leaves: critical above 350, overheating warning above 250 up to
\* 350, elevated above 150 up to 250, and normal otherwise.
C17_StatusFollowsTemperature ==
    last.fn = "calculate_brake_failure_risk" =>
        LET temperature == object.self.brake_temperature
        IN  StatusLevel(last.ret.status)
                = IF temperature > 350 * Scale THEN 3
                  ELSE IF temperature > 250 * Scale THEN 2
                  ELSE IF temperature > 150 * Scale THEN 1
                  ELSE 0

\* How far a journey is: 0 before the call, then the row and the step of
\* the loop body it is at, and past every row once it has returned.
StepIndex(p) ==
    CASE p = "stability" -> 1
      [] p = "brake"     -> 2
      [] p = "cliff"     -> 3
      [] p = "landslide" -> 4
      [] p = "combine"   -> 5
      [] p = "adjust"    -> 6

Progress(p, row, rows) ==
    IF p = "NotStarted" THEN 0
    ELSE IF p = "Completed" THEN 7 * (rows + 1)
    ELSE 7 * row + StepIndex(p)

\* C18: a journey only moves forward: every step takes it further through
\* NotStarted, the rows in order (each row's steps once, in order), and
\* Completed, and keeps the records already appended; a journey that has
\* returned has a record for each of its N rows; and a journey that has
\* been called eventually returns with all N records.
C18_JourneyRunsForwardToCompletion ==
    /\ [][\A j \in Journeys :
             /\ Progress(pc'[j], pos'[j], Len(args'[j].route))
                    >= Progress(pc[j], pos[j], Len(args[j].route))
             /\ pc'[j] # pc[j] =>
                    Progress(pc'[j], pos'[j], Len(args'[j].route))
                        > Progress(pc[j], pos[j], Len(args[j].route))
             /\ Len(results'[j]) >= Len(results[j])
             /\ SubSeq(results'[j], 1, Len(results[j])) = results[j]]_vars
    /\ [](pc[1] = "Completed" => Len(results[1]) = Len(args[1].route))
    /\ (pc[1] # "NotStarted")
           ~> (pc[1] = "Completed" /\ Len(results[1]) = Len(args[1].route))

\* A journey over three rows has returned with its three records, one of
\* them with a final risk of 1.
C18_Witness ==
    /\ pc[1] = "Completed"
    /\ Len(args[1].route) = 3
    /\ Len(results[1]) = 3
    /\ results[1][1].Final_Risk = Scale

(***************************************************************************)
(* RiskFusionEngine (risk_calculator.py): the reports over a result table. *)
(* A table is the sequence of its rows in index order, the index being     *)
(* the RangeIndex 0..N-1 of pd.DataFrame(results).                         *)
(***************************************************************************)
\* Series.max() of a column without missing values.
RECURSIVE max(_)
max(values) ==
    IF Len(values) = 1 THEN values[1] ELSE Max(Head(values), max(Tail(values)))

\* Series.idxmax(): the position of the first occurrence of the maximum.
idxmax(values) ==
    CHOOSE i \in DOMAIN values :
        /\ values[i] = max(values)
        /\ \A k \in 1..(i - 1) : values[k] # max(values)

\* The statistics with the critical threshold taken exclusively.
calculate_risk_statistics_exclusive(simulation_results) ==
    [total_segments    |-> Len(simulation_results),
     critical_segments |-> Len(SelectSeq(simulation_results,
                               LAMBDA row : row.Final_Risk > (8 * Scale) \div 10)),
     extreme_segments  |-> Len(SelectSeq(simulation_results,
                               LAMBDA row : row.Final_Risk >= (6 * Scale) \div 10)),
     high_risk_segments |-> Len(SelectSeq(simulation_results,
                               LAMBDA row : row.Final_Risk >= (4 * Scale) \div 10)),
     average_risk      |-> mean(Column(simulation_results, "Final_Risk")),
     max_risk          |-> max(Column(simulation_results, "Final_Risk")),
     max_risk_segment  |->
         simulation_results[idxmax(Column(simulation_results, "Final_Risk"))].Segment,
     max_brake_temp    |-> max(Column(simulation_results, "Brake_Temperature_C")),
     brake_critical_segments |-> Len(SelectSeq(simulation_results,
                               LAMBDA row : row.Brake_Temperature_C > 250 * Scale)),
     cliff_zones       |-> Len(SelectSeq(simulation_results,
                               LAMBDA row : row.Cliff_Fall_Risk > Scale \div 2)),
     landslide_zones   |-> Len(SelectSeq(simulation_results,
                               LAMBDA row : row.Landslide_Risk > Scale \div 2))]

\* The statistics with extreme_segments counted from 0.9.
calculate_risk_statistics_extreme_at_nine_tenths(simulation_results) ==
    [total_segments    |-> Len(simulation_results),
     critical_segments |-> Len(SelectSeq(simulation_results,
                               LAMBDA row : row.Final_Risk >= (8 * Scale) \div 10)),
     extreme_segments  |-> Len(SelectSeq(simulation_results,
                               LAMBDA row : row.Final_Risk >= (9 * Scale) \div 10)),
     high_risk_segments |-> Len(SelectSeq(simulation_results,
                               LAMBDA row : row.Final_Risk >= (4 * Scale) \div 10)),
     average_risk      |-> mean(Column(simulation_results, "Final_Risk")),
     max_risk          |-> max(Column(simulation_results, "Final_Risk")),
     max_risk_segment  |->
         simulation_results[idxmax(Column(simulation_results, "Final_Risk"))].Segment,
     max_brake_temp    |-> max(Column(simulation_results, "Brake_Temperature_C")),
     brake_critical_segments |-> Len(SelectSeq(simulation_results,
                               LAMBDA row : row.Brake_Temperature_C > 250 * Scale)),
     cliff_zones       |-> Len(SelectSeq(simulation_results,
                               LAMBDA row : row.Cliff_Fall_Risk > Scale \div 2)),
     landslide_zones   |-> Len(SelectSeq(simulation_results,
                               LAMBDA row : row.Landslide_Risk > Scale \div 2))]

\* RiskFusionEngine.calculate_risk_statistics, of a table of at least one row
\* (idxmax raises on an empty column).
calculate_risk_statistics(simulation_results) ==
    [total_segments    |-> Len(simulation_results),
     critical_segments |-> Len(SelectSeq(simulation_results,
                               LAMBDA row : row.Final_Risk >= (8 * Scale) \div 10)),
     extreme_segments  |-> Len(SelectSeq(simulation_results,
                               LAMBDA row : row.Final_Risk >= (6 * Scale) \div 10)),
     high_risk_segments |-> Len(SelectSeq(simulation_results,
                               LAMBDA row : row.Final_Risk >= (4 * Scale) \div 10)),
     average_risk      |-> mean(Column(simulation_results, "Final_Risk")),
     max_risk          |-> max(Column(simulation_results, "Final_Risk")),
     max_risk_segment  |->
         simulation_results[idxmax(Column(simulation_results, "Final_Risk"))].Segment,
     max_brake_temp    |-> max(Column(simulation_results, "Brake_Temperature_C")),
     brake_critical_segments |-> Len(SelectSeq(simulation_results,
                               LAMBDA row : row.Brake_Temperature_C > 250 * Scale)),
     cliff_zones       |-> Len(SelectSeq(simulation_results,
                               LAMBDA row : row.Cliff_Fall_Risk > Scale \div 2)),
     landslide_zones   |-> Len(SelectSeq(simulation_results,
                               LAMBDA row : row.Landslide_Risk > Scale \div 2))]

\* The table without its row at position i.
Drop(simulation_results, i) ==
    [k \in 1..(Len(simulation_results) - 1) |->
        IF k < i THEN simulation_results[k] ELSE simulation_results[k + 1]]

\* The first n rows of the table in index order, whatever their values.
head(simulation_results, n, column) ==
    SubSeq(simulation_results, 1, Min(n, Len(simulation_results)))

\* DataFrame.nlargest(n, column), keep='first', for n >= 1 and a column
\* without missing values: the n rows of the largest values, largest first,
\* rows of equal value in index order.
RECURSIVE nlargest(_, _, _)
nlargest(simulation_results, n, column) ==
    IF n <= 0 \/ simulation_results = <<>> THEN <<>>
    ELSE LET i == idxmax(Column(simulation_results, column))
         IN  <<simulation_results[i]>>
                 \o nlargest(Drop(simulation_results, i), n - 1, column)

\* f"{x:.0f}" of a Scale-d x >= 0: the nearest integer, ties to even.
Format0(x) ==
    LET q == x \div Scale
        r == x % Scale
    IN  IF 2 * r > Scale \/ (2 * r = Scale /\ q % 2 = 1) THEN q + 1 ELSE q

\* identify_danger_reasons: the reasons of a row, in the order of the tests,
\* each with the value its text is formatted with; joined by '; ', and
\* 'Multiple factors' when there is none.
identify_danger_reasons(row) ==
    LET reasons ==
            (IF row.Brake_Failure_Risk > (6 * Scale) \div 10
             THEN <<<<"Brake failure risk", Format0(row.Brake_Temperature_C)>>>>
             ELSE <<>>)
         \o (IF row.Cliff_Fall_Risk > (6 * Scale) \div 10
             THEN <<<<"High cliff fall risk">>>> ELSE <<>>)
         \o (IF row.Landslide_Risk > (6 * Scale) \div 10
             THEN <<<<"Landslide prone", row.Landslide_Category>>>> ELSE <<>>)
         \o (IF row.Stability_Risk > (6 * Scale) \div 10
             THEN <<<<"Vehicle stability issues">>>> ELSE <<>>)
         \o (IF row.Slope_pct > 25
             THEN <<<<"Extreme slope", row.Slope_pct * 10>>>> ELSE <<>>)
    IN  IF reasons # <<>> THEN reasons ELSE <<<<"Multiple factors">>>>

\* RiskFusionEngine.identify_dangerous_zones, for top_n >= 1.
identify_dangerous_zones(simulation_results, top_n) ==
    LET dangerous == nlargest(simulation_results, top_n, "Final_Risk")
    IN  [i \in DOMAIN dangerous |->
            [Segment             |-> dangerous[i].Segment,
             Distance_km         |-> dangerous[i].Distance_km,
             Final_Risk          |-> dangerous[i].Final_Risk,
             Slope_pct           |-> dangerous[i].Slope_pct,
             Brake_Temperature_C |-> dangerous[i].Brake_Temperature_C,
             Danger_Reasons      |-> identify_danger_reasons(dangerous[i])]]

\* A row of a result table (lines 528-546 of simulation_engine.py), with the
\* columns the reports read.
ResultRow(segment_id, final, brake_risk, temperature, cliff_risk, landslide_risk, stability_risk, slope_pct, category, safe_speed) ==
    [Segment                   |-> segment_id,
     Distance_km               |-> DefaultLength * segment_id,
     Slope_pct                 |-> slope_pct,
     Stability_Risk            |-> stability_risk,
     Brake_Failure_Risk        |-> brake_risk,
     Brake_Temperature_C       |-> temperature,
     Cliff_Fall_Risk           |-> cliff_risk,
     Landslide_Risk            |-> landslide_risk,
     Final_Risk                |-> final,
     Safe_Speed_Recommendation |-> safe_speed,
     Cliff_Severity            |-> CliffSeverity(cliff_risk),
     Landslide_Category        |-> category]

\* Rows of a result table, one kind for each side of each threshold of the
\* reports.
SampleRow(kind, segment_id) ==
    CASE kind = "below_high" ->
           ResultRow(segment_id, 399999, 600000, 250 * Scale, 500000, 500000, 500000,
                     25, "MEDIUM", 30 * Scale)
      [] kind = "high" ->
           ResultRow(segment_id, 400000, 600001, 250 * Scale + Scale \div 10, 0, 0, 0,
                     3, "LOW", 45 * Scale)
      [] kind = "below_extreme" ->
           ResultRow(segment_id, 599999, 0, 20 * Scale, 500001, 0, 0, 26, "LOW",
                     45 * Scale)
      [] kind = "extreme" ->
           ResultRow(segment_id, 600000, 0, 20 * Scale, 600000, 500001, 600001, 0,
                     "MEDIUM", 30 * Scale)
      [] kind = "below_critical" ->
           ResultRow(segment_id, 799999, 0, 150 * Scale, 600001, 600000, 0, 30,
                     "MEDIUM", 45 * Scale)
      [] kind = "critical" ->
           ResultRow(segment_id, 800000, 0, 20 * Scale, 0, 600001, 0, 0, "HIGH",
                     45 * Scale)
      [] kind = "full" ->
           ResultRow(segment_id, Scale, Scale, 400 * Scale + Scale \div 2, Scale, Scale,
                     Scale, 30, "CRITICAL", 12 * Scale + Scale \div 2)

SampleKinds == {"below_high", "high", "below_extreme", "extreme", "below_critical",
                "critical", "full"}

MaxRecords == 3

\* The result tables of 1..MaxRecords rows, Segment ids 1..N or increasing
\* with gaps.
RECURSIVE Tables(_)
Tables(n) ==
    IF n = 0 THEN {}
    ELSE Tables(n - 1)
         \cup {[i \in 1..n |-> SampleRow(kinds[i], first + stride * (i - 1))]
               : kinds \in [1..n -> SampleKinds],
                 first \in {1, 2}, stride \in {1, 3}}

(***************************************************************************)
(* SafetyRecommendationEngine (risk_calculator.py).  A recommendation is   *)
(* the dictionary of its template; a reason is the list of the pieces of   *)
(* its text, a formatted number among them where the template has one.     *)
(***************************************************************************)
SegmentItem(type, priority, recommendation, reason, estimated_cost, implementation_time) ==
    [type |-> type, priority |-> priority, recommendation |-> recommendation,
     reason |-> reason, estimated_cost |-> estimated_cost,
     implementation_time |-> implementation_time]

\* The two brake tiers tested one after the other, the second not skipped
\* when the first applies.
BrakeRecommendationsBothTiers(segment_data) ==
    (IF segment_data.Brake_Failure_Risk > 600000
     THEN <<SegmentItem("INFRASTRUCTURE", "CRITICAL", <<"Install emergency escape ramp">>,
                <<"High brake failure risk (Temp: ",
                  ToString(Format0(segment_data.Brake_Temperature_C)), " C)">>,
                "High (Rs 50-80 lakhs)", "3-6 months"),
            SegmentItem("SIGNAGE", "HIGH", <<"Install brake temperature warning signs">>,
                <<"Warn drivers of extended downhill section">>,
                "Low (Rs 50,000-1 lakh)", "1-2 weeks")>>
     ELSE <<>>)
    \o (IF segment_data.Brake_Failure_Risk > 400000
        THEN <<SegmentItem("SIGNAGE", "MEDIUM", <<"Install \"Use Low Gear\" advisory signs">>,
                   <<"Moderate brake stress on downhill">>,
                   "Low (Rs 30,000-50,000)", "1 week")>>
        ELSE <<>>)

\* lines 142-167: the brake failure recommendations.
BrakeRecommendations(segment_data) ==
    IF segment_data.Brake_Failure_Risk > 600000
    THEN <<SegmentItem("INFRASTRUCTURE", "CRITICAL", <<"Install emergency escape ramp">>,
               <<"High brake failure risk (Temp: ",
                 ToString(Format0(segment_data.Brake_Temperature_C)), " C)">>,
               "High (Rs 50-80 lakhs)", "3-6 months"),
           SegmentItem("SIGNAGE", "HIGH", <<"Install brake temperature warning signs">>,
               <<"Warn drivers of extended downhill section">>,
               "Low (Rs 50,000-1 lakh)", "1-2 weeks")>>
    ELSE IF segment_data.Brake_Failure_Risk > 400000
    THEN <<SegmentItem("SIGNAGE", "MEDIUM", <<"Install \"Use Low Gear\" advisory signs">>,
               <<"Moderate brake stress on downhill">>,
               "Low (Rs 30,000-50,000)", "1 week")>>
    ELSE <<>>

\* lines 169-187: the cliff fall recommendations.
CliffRecommendations(segment_data) ==
    IF segment_data.Cliff_Fall_Risk > 600000
    THEN <<SegmentItem("INFRASTRUCTURE", "CRITICAL",
               <<"Install/upgrade guardrails immediately">>,
               <<"Extreme cliff fall risk - ", segment_data.Cliff_Severity>>,
               "High (Rs 20-30 lakhs per km)", "2-4 months"),
           SegmentItem("TRAFFIC_MANAGEMENT", "HIGH",
               <<"Implement speed limit of 20-25 km/h">>,
               <<"Reduce risk in cliff zone">>,
               "Low (Rs 20,000-30,000)", "Immediate")>>
    ELSE <<>>

\* lines 189-207: the landslide recommendations.
LandslideRecommendations(segment_data) ==
    IF segment_data.Landslide_Risk > 600000
    THEN <<SegmentItem("MONITORING", "CRITICAL",
               <<"Install real-time landslide monitoring system">>,
               <<"High landslide risk - ", segment_data.Landslide_Category>>,
               "Medium (Rs 10-20 lakhs)", "1-2 months"),
           SegmentItem("INFRASTRUCTURE", "HIGH",
               <<"Construct retaining walls and drainage">>,
               <<"Stabilize slope and prevent soil erosion">>,
               "Very High (Rs 1-2 crores)", "6-12 months")>>
    ELSE <<>>

\* lines 209-227: the stability and curve recommendations.
StabilityRecommendations(segment_data) ==
    IF segment_data.Stability_Risk > 500000
    THEN <<SegmentItem("INFRASTRUCTURE", "HIGH",
               <<"Widen road and improve banking on curves">>,
               <<"Improve vehicle stability on sharp curves">>,
               "High (Rs 40-60 lakhs per km)", "4-6 months"),
           SegmentItem("SIGNAGE", "MEDIUM",
               <<"Install curve warning signs with speed advisory">>,
               <<"Alert drivers to dangerous curve ahead">>,
               "Low (Rs 40,000-60,000)", "1 week")>>
    ELSE <<>>

\* lines 229-237: the speed recommendation; int() truncates the speed.
SpeedRecommendations(segment_data) ==
    IF segment_data.Safe_Speed_Recommendation < 30 * Scale
    THEN <<SegmentItem("TRAFFIC_MANAGEMENT", "HIGH",
               <<"Enforce strict speed limit: ",
                 ToString(segment_data.Safe_Speed_Recommendation \div Scale), " km/h">>,
               <<"Extremely dangerous segment requires reduced speed">>,
               "Low (Rs 50,000-1 lakh)", "Immediate")>>
    ELSE <<>>

\* SafetyRecommendationEngine.generate_segment_recommendations
generate_segment_recommendations(segment_data) ==
    BrakeRecommendations(segment_data)
        \o CliffRecommendations(segment_data)
        \o LandslideRecommendations(segment_data)
        \o StabilityRecommendations(segment_data)
        \o SpeedRecommendations(segment_data)

\* Segment records on both sides of each threshold of the segment rules.
ThresholdRows ==
    {ResultRow(1, 800000, brake_risk, 260 * Scale + Scale \div 2, cliff_risk,
               landslide_risk, stability_risk, 30, "HIGH", safe_speed)
     : brake_risk \in {400000, 400001, 600000, 600001},
       cliff_risk \in {600000, 600001},
       landslide_risk \in {600000, 600001},
       stability_risk \in {500000, 500001},
       safe_speed \in {30 * Scale - Scale \div 2, 30 * Scale}}

DirectSegmentRecommendations(segment_data) ==
    /\ last = NoCall
    /\ last' = [fn     |-> "generate_segment_recommendations",
                arg    |-> [segment_data |-> segment_data],
                before |-> object.self,
                ret    |-> generate_segment_recommendations(segment_data)]
    /\ UNCHANGED <<journey_vars, object>>

RoadItem(scope, priority, recommendation, reason, estimated_cost, implementation_time) ==
    [scope |-> scope, priority |-> priority, recommendation |-> recommendation,
     reason |-> reason, estimated_cost |-> estimated_cost,
     implementation_time |-> implementation_time]

\* lines 256-265: the road-wide audit.
CriticalZonesRecommendations(risk_stats) ==
    IF risk_stats.critical_segments > 5
    THEN <<RoadItem("ROAD-WIDE", "CRITICAL",
               <<"Comprehensive road safety audit and immediate intervention">>,
               <<ToString(risk_stats.critical_segments),
                 " critical danger zones identified">>,
               "Very High (Rs 5-10 crores)", "12-24 months")>>
    ELSE <<>>

\* lines 267-284: the brake failure zones.
BrakeZonesRecommendations(risk_stats) ==
    IF risk_stats.brake_critical_segments > 3
    THEN <<RoadItem("ROAD-WIDE", "HIGH",
               <<"Install 2-3 emergency escape ramps at strategic locations">>,
               <<"Multiple brake overheating zones detected (Max: ",
                 ToString(Format0(risk_stats.max_brake_temp)), " C)">>,
               "High (Rs 1.5-2.5 crores)", "6-9 months"),
           RoadItem("OPERATIONAL", "MEDIUM",
               <<"Mandatory brake check stations before steep descents">>,
               <<"Prevent brake-related accidents">>,
               "Medium (Rs 30-50 lakhs)", "2-3 months")>>
    ELSE <<>>

\* The guardrail program from ten cliff zones on.
CliffZonesRecommendationsFromTen(risk_stats) ==
    IF risk_stats.cliff_zones >= 10
    THEN <<RoadItem("ROAD-WIDE", "CRITICAL",
               <<"Phased guardrail installation program for all cliff zones">>,
               <<ToString(risk_stats.cliff_zones),
                 " segments with high cliff fall risk">>,
               "Very High (Rs 2-4 crores)", "8-12 months")>>
    ELSE <<>>

\* lines 286-295: the cliff zones.
CliffZonesRecommendations(risk_stats) ==
    IF risk_stats.cliff_zones > 10
    THEN <<RoadItem("ROAD-WIDE", "CRITICAL",
               <<"Phased guardrail installation program for all cliff zones">>,
               <<ToString(risk_stats.cliff_zones),
                 " segments with high cliff fall risk">>,
               "Very High (Rs 2-4 crores)", "8-12 months")>>
    ELSE <<>>

\* lines 297-314: the landslide zones.
LandslideZonesRecommendations(risk_stats) ==
    IF risk_stats.landslide_zones > 5
    THEN <<RoadItem("ROAD-WIDE", "HIGH",
               <<"Implement real-time weather-based road closure system">>,
               <<ToString(risk_stats.landslide_zones), " landslide-prone segments">>,
               "Medium (Rs 50-80 lakhs)", "3-4 months"),
           RoadItem("OPERATIONAL", "HIGH",
               <<"Restrict traffic during heavy rainfall (>50mm/day)">>,
               <<"Prevent landslide-related accidents">>,
               "Low (Rs 10-20 lakhs)", "Immediate")>>
    ELSE <<>>

\* lines 316-333: the two general items.
GeneralRecommendations ==
    <<RoadItem("OPERATIONAL", "HIGH",
          <<"Deploy mobile safety patrol units during peak hours">>,
          <<"Quick response to accidents and hazards">>,
          "Medium (Rs 40-60 lakhs annually)", "1 month"),
      RoadItem("AWARENESS", "MEDIUM",
          <<"Conduct driver awareness campaigns for mountain driving">>,
          <<"Educate drivers on safe mountain driving practices">>,
          "Low (Rs 10-20 lakhs)", "Ongoing")>>

\* SafetyRecommendationEngine.generate_road_level_recommendations; the table
\* is an argument the method does not read.
generate_road_level_recommendations(simulation_results, risk_stats) ==
    CriticalZonesRecommendations(risk_stats)
        \o BrakeZonesRecommendations(risk_stats)
        \o CliffZonesRecommendations(risk_stats)
        \o LandslideZonesRecommendations(risk_stats)
        \o GeneralRecommendations

\* Statistics on both sides of each threshold of the road-level rules, of a
\* table of 20 rows.
ThresholdStatistics ==
    {[total_segments          |-> 20,
      critical_segments       |-> critical_segments,
      extreme_segments        |-> 8,
      high_risk_segments      |-> 12,
      average_risk            |-> 450000,
      max_risk                |-> 900000,
      max_risk_segment        |-> 7,
      max_brake_temp          |-> 260 * Scale + Scale \div 2,
      brake_critical_segments |-> brake_critical_segments,
      cliff_zones             |-> cliff_zones,
      landslide_zones         |-> landslide_zones]
     : critical_segments \in {5, 6}, brake_critical_segments \in {3, 4},
       cliff_zones \in {10, 11}, landslide_zones \in {5, 6}}

DirectRoadRecommendations(risk_stats) ==
    /\ last = NoCall
    /\ last' = [fn     |-> "generate_road_level_recommendations",
                arg    |-> [risk_stats |-> risk_stats],
                before |-> object.self,
                ret    |-> generate_road_level_recommendations(<<>>, risk_stats)]
    /\ UNCHANGED <<journey_vars, object>>

\* priority_order.get(rec['priority'], 5)
priority_order(priority) ==
    CASE priority = "CRITICAL" -> 1
      [] priority = "HIGH"     -> 2
      [] priority = "MEDIUM"   -> 3
      [] priority = "LOW"      -> 4
      [] OTHER                 -> 5

\* The rows left in the order they were passed in.
unsorted(ranks, remaining) ==
    {[i \in 1..Cardinality(remaining) |-> i]}

\* The orders in which df.sort_values('priority_rank') can leave the rows
\* whose positions are in remaining: the default sort is quicksort, which is
\* not stable, so rows of equal rank can come in any order.
RECURSIVE argsort(_, _)
argsort(ranks, remaining) ==
    IF remaining = {} THEN {<<>>}
    ELSE LET firsts == {i \in remaining : \A k \in remaining : ranks[i] <= ranks[k]}
         IN  UNION {{<<i>> \o rest : rest \in argsort(ranks, remaining \ {i})}
                    : i \in firsts}

\* The column of ranks that line 352 adds.
priority_ranks(all_recommendations) ==
    [i \in DOMAIN all_recommendations |-> priority_order(all_recommendations[i].priority)]

\* pd.DataFrame(all_recommendations): the columns are the keys of all the
\* dictionaries, a key that a dictionary lacks giving a missing cell.
DataFrameRow(rec, columns) ==
    [c \in columns |->
        IF c = "priority_rank" THEN priority_order(rec.priority)
        ELSE IF c \in DOMAIN rec THEN rec[c]
        ELSE IF c \in {"segment", "distance_km"} THEN NaN
        ELSE NaNCell]

\* SafetyRecommendationEngine.prioritize_interventions, of a list of at least
\* one recommendation (an empty frame has no column to sort by), its rows in
\* the order the sort leaves them.
prioritize_interventions(all_recommendations, order) ==
    LET columns == UNION {DOMAIN all_recommendations[i] : i \in DOMAIN all_recommendations}
                       \cup {"priority_rank"}
    IN  [k \in DOMAIN order |-> DataFrameRow(all_recommendations[order[k]], columns)]

\* Recommendations of each priority, one of a priority outside the order,
\* with and without a segment.
SampleRecommendations ==
    {[type |-> "INFRASTRUCTURE", priority |-> "CRITICAL",
      recommendation |-> <<"Install emergency escape ramp">>, segment |-> 2,
      distance_km |-> 22],
     [type |-> "SIGNAGE", priority |-> "HIGH",
      recommendation |-> <<"Install brake temperature warning signs">>, segment |-> 2,
      distance_km |-> 22],
     [scope |-> "OPERATIONAL", priority |-> "HIGH",
      recommendation |-> <<"Deploy mobile safety patrol units during peak hours">>],
     [scope |-> "AWARENESS", priority |-> "MEDIUM",
      recommendation |-> <<"Conduct driver awareness campaigns for mountain driving">>],
     [scope |-> "OPERATIONAL", priority |-> "LOW",
      recommendation |-> <<"Review signage yearly">>],
     [scope |-> "OPERATIONAL", priority |-> "OPTIONAL",
      recommendation |-> <<"Plant roadside vegetation">>]}

MaxRecommendations == 3

RECURSIVE Lists(_, _)
Lists(items, n) ==
    IF n = 0 THEN {}
    ELSE Lists(items, n - 1) \cup [1..n -> items]

DirectPrioritize(all_recommendations) ==
    /\ last = NoCall
    /\ \E order \in argsort(priority_ranks(all_recommendations),
                            DOMAIN all_recommendations) :
          last' = [fn     |-> "prioritize_interventions",
                   arg    |-> [all_recommendations |-> all_recommendations],
                   before |-> object.self,
                   ret    |-> prioritize_interventions(all_recommendations, order)]
    /\ UNCHANGED <<journey_vars, object>>

(***************************************************************************)
(* generate_safety_report                                                  *)
(***************************************************************************)
\* DataFrame.head(n)
head_rows(frame, n) == SubSeq(frame, 1, Min(n, Len(frame)))

\* The position of the row that frame.iloc[position] gives in a frame of n
\* rows, counted from 1; 0 when iloc raises IndexError.
iloc(n, position) ==
    IF position >= 0 THEN (IF position < n THEN position + 1 ELSE 0)
    ELSE (IF 0 - position <= n THEN n + position + 1 ELSE 0)

\* lines 387-389: a recommendation with the keys of its zone.
Tagged(rec, segment) ==
    [type |-> rec.type, priority |-> rec.priority,
     recommendation |-> rec.recommendation, reason |-> rec.reason,
     estimated_cost |-> rec.estimated_cost,
     implementation_time |-> rec.implementation_time,
     segment |-> segment.Segment, distance_km |-> segment.Distance_km]

\* lines 384-390: the loop over the first five zones; raised when an iloc of
\* the loop raises.
RECURSIVE segment_recommendations(_, _)
segment_recommendations(simulation_results, zones) ==
    IF zones = <<>> THEN [raised |-> FALSE, value |-> <<>>]
    ELSE LET segment == Head(zones)
             at      == iloc(Len(simulation_results), segment.Segment - 1)
         IN  IF at = 0 THEN [raised |-> TRUE, value |-> <<>>]
             ELSE LET recs == generate_segment_recommendations(simulation_results[at])
                      rest == segment_recommendations(simulation_results, Tail(zones))
                  IN  [raised |-> rest.raised,
                       value  |-> [i \in DOMAIN recs |-> Tagged(recs[i], segment)]
                                      \o rest.value]

\* lines 384-396: the list that is passed to prioritize_interventions.
all_recommendations_of(simulation_results) ==
    LET stats == calculate_risk_statistics(simulation_results)
        dangerous_zones == identify_dangerous_zones(simulation_results, 10)
        segment_recs == segment_recommendations(simulation_results,
                                                head_rows(dangerous_zones, 5))
    IN  [raised |-> segment_recs.raised,
         value  |-> segment_recs.value
                        \o generate_road_level_recommendations(simulation_results, stats)]

\* generate_safety_report, for the order its sort leaves the recommendations
\* in; [raised |-> "IndexError"] when line 386 raises.
generate_safety_report(simulation_results, vehicle_type, environment_condition, order) ==
    LET stats == calculate_risk_statistics(simulation_results)
        all   == all_recommendations_of(simulation_results)
        prioritized == prioritize_interventions(all.value, order)
    IN  IF all.raised THEN [raised |-> "IndexError"]
        ELSE [vehicle_type          |-> vehicle_type,
              environment_condition |-> environment_condition,
              statistics            |-> stats,
              dangerous_zones       |-> identify_dangerous_zones(simulation_results, 10),
              recommendations       |-> prioritized,
              executive_summary     |->
                  [total_risk_score       |-> stats.average_risk,
                   critical_action_items  |->
                       Len(SelectSeq(prioritized, LAMBDA rec : rec.priority = "CRITICAL")),
                   most_dangerous_segment |-> stats.max_risk_segment,
                   key_hazards            |->
                       <<<<"Brake failure risk in ",
                           ToString(stats.brake_critical_segments), " segments">>,
                         <<"Cliff fall danger in ", ToString(stats.cliff_zones), " zones">>,
                         <<"Landslide risk in ", ToString(stats.landslide_zones),
                           " areas">>>>]]

MaxReportRows == 2

\* The tables the report is made of: those of up to MaxReportRows rows of
\* kinds with at most two segment recommendations, and two of six rows
\* (Segment ids 1..6 and 2..7), whose last row is the one of lowest risk and
\* so not among the first five zones.
ReportKinds == {"below_high", "high", "below_extreme", "extreme", "critical"}

RECURSIVE ReportTables(_)
ReportTables(n) ==
    IF n = 0
    THEN {[i \in 1..6 |-> SampleRow(IF i = 6 THEN "high" ELSE "below_extreme",
                                     first + i - 1)]
          : first \in {1, 2}}
    ELSE ReportTables(n - 1)
         \cup {[i \in 1..n |-> SampleRow(kinds[i], first + stride * (i - 1))]
               : kinds \in [1..n -> ReportKinds],
                 first \in {1, 2}, stride \in {1, 3}}

DirectReport(simulation_results, vehicle_type, environment_condition) ==
    /\ last = NoCall
    /\ LET all == all_recommendations_of(simulation_results)
       IN  \E order \in (IF all.raised THEN {<<>>}
                         ELSE argsort(priority_ranks(all.value), DOMAIN all.value)) :
              last' = [fn     |-> "generate_safety_report",
                       arg    |-> [simulation_results |-> simulation_results,
                                   vehicle_type |-> vehicle_type,
                                   environment_condition |-> environment_condition],
                       before |-> object.self,
                       ret    |-> generate_safety_report(simulation_results,
                                      vehicle_type, environment_condition, order)]
    /\ UNCHANGED <<journey_vars, object>>

\* A caller's one call of a report on a result table.
DirectStatistics(simulation_results) ==
    /\ last = NoCall
    /\ last' = [fn     |-> "calculate_risk_statistics",
                arg    |-> [simulation_results |-> simulation_results],
                before |-> object.self,
                ret    |-> calculate_risk_statistics(simulation_results)]
    /\ UNCHANGED <<journey_vars, object>>

DirectZones(simulation_results, top_n) ==
    /\ last = NoCall
    /\ last' = [fn     |-> "identify_dangerous_zones",
                arg    |-> [simulation_results |-> simulation_results,
                            top_n |-> top_n],
                before |-> object.self,
                ret    |-> identify_dangerous_zones(simulation_results, top_n)]
    /\ UNCHANGED <<journey_vars, object>>

ReportInit ==
    /\ DirectInit
    /\ object.vp = vehicle_params("Car")

\* A caller makes one call of one of the reports.
NextReport ==
    \/ /\ last = NoCall
       /\ \E simulation_results \in Tables(MaxRecords) :
             DirectStatistics(simulation_results)
    \/ /\ last = NoCall
       /\ \E simulation_results \in Tables(MaxRecords), top_n \in 1..(MaxRecords + 1) :
             DirectZones(simulation_results, top_n)
    \/ /\ last = NoCall
       /\ \E segment_data \in ThresholdRows :
             DirectSegmentRecommendations(segment_data)
    \/ /\ last = NoCall
       /\ \E risk_stats \in ThresholdStatistics :
             DirectRoadRecommendations(risk_stats)
    \/ /\ last = NoCall
       /\ \E all_recommendations \in Lists(SampleRecommendations, MaxRecommendations) :
             DirectPrioritize(all_recommendations)
    \/ /\ last = NoCall
       /\ \E simulation_results \in ReportTables(MaxReportRows),
             vehicle_type \in {"Bus", "Truck"} :
             DirectReport(simulation_results, vehicle_type, "Normal")

SpecReport == ReportInit /\ [][NextReport]_vars

\* C19: the counts of calculate_risk_statistics are the numbers of rows with
\* Final_Risk >= 0.8 (critical), >= 0.6 (extreme), >= 0.4 (high), with
\* Brake_Temperature_C > 250 (brake-critical), with Cliff_Fall_Risk > 0.5
\* (cliff zones) and with Landslide_Risk > 0.5 (landslide zones); and
\* max_risk_segment is the Segment of a row whose Final_Risk is the maximum.
C19_StatisticsCountByThreshold ==
    last.fn = "calculate_risk_statistics" =>
        LET t == last.arg.simulation_results
            Count(Counted(_)) == Cardinality({i \in DOMAIN t : Counted(t[i])})
        IN  /\ last.ret.critical_segments
                 = Count(LAMBDA row : row.Final_Risk >= 800000)
            /\ last.ret.extreme_segments
                 = Count(LAMBDA row : row.Final_Risk >= 600000)
            /\ last.ret.high_risk_segments
                 = Count(LAMBDA row : row.Final_Risk >= 400000)
            /\ last.ret.brake_critical_segments
                 = Count(LAMBDA row : row.Brake_Temperature_C > 250 * Scale)
            /\ last.ret.cliff_zones
                 = Count(LAMBDA row : row.Cliff_Fall_Risk > 500000)
            /\ last.ret.landslide_zones
                 = Count(LAMBDA row : row.Landslide_Risk > 500000)
            /\ \E i \in DOMAIN t :
                  /\ t[i].Segment = last.ret.max_risk_segment
                  /\ \A k \in DOMAIN t : t[k].Final_Risk <= t[i].Final_Risk

\* A table with a row exactly at each inclusive threshold and rows exactly at
\* the exclusive ones: the rows at 0.8, 0.6 and 0.4 are counted, the row at
\* 250 degrees and 0.5 is not.
C19_Witness ==
    /\ last.fn = "calculate_risk_statistics"
    /\ Len(last.arg.simulation_results) = 3
    /\ last.arg.simulation_results[1].Final_Risk = 400000
    /\ last.arg.simulation_results[2].Final_Risk = 800000
    /\ last.arg.simulation_results[3].Final_Risk = 399999
    /\ last.arg.simulation_results[3].Brake_Temperature_C = 250 * Scale
    /\ last.arg.simulation_results[3].Cliff_Fall_Risk = 500000
    /\ last.arg.simulation_results[1].Segment = 2
    /\ last.ret.critical_segments = 1
    /\ last.ret.high_risk_segments = 2
    /\ last.ret.brake_critical_segments = 1
    /\ last.ret.cliff_zones = 0
    /\ last.ret.max_risk_segment = 5

\* The rows of the table that are not among the returned ones: the table's
\* rows with the returned Segment ids removed (the ids of a table differ).
NotReturned(simulation_results, returned) ==
    {i \in DOMAIN simulation_results :
        \A k \in DOMAIN returned : returned[k].Segment # simulation_results[i].Segment}

\* C20: identify_dangerous_zones(records, top_n) returns min(top_n, N) rows of
\* the table, in non-increasing order of Final_Risk, each with a Final_Risk
\* at least that of every row it does not return.
C20_TopRowsByFinalRisk ==
    last.fn = "identify_dangerous_zones" =>
        LET t == last.arg.simulation_results
            d == last.ret
        IN  /\ Len(d) = Min(last.arg.top_n, Len(t))
            /\ \A k \in DOMAIN d :
                  \E i \in DOMAIN t : /\ t[i].Segment = d[k].Segment
                                      /\ t[i].Final_Risk = d[k].Final_Risk
            /\ \A k, m \in DOMAIN d : k # m => d[k].Segment # d[m].Segment
            /\ \A k \in 1..(Len(d) - 1) : d[k].Final_Risk >= d[k + 1].Final_Risk
            /\ \A k \in DOMAIN d : \A i \in NotReturned(t, d) :
                  d[k].Final_Risk >= t[i].Final_Risk

\* Two of three rows returned, out of index order, the lowest row left out.
C20_Witness ==
    /\ last.fn = "identify_dangerous_zones"
    /\ Len(last.arg.simulation_results) = 3
    /\ last.arg.top_n = 2
    /\ Len(last.ret) = 2
    /\ last.ret[1].Segment = last.arg.simulation_results[3].Segment
    /\ last.ret[2].Segment = last.arg.simulation_results[1].Segment
    /\ last.ret[1].Final_Risk > last.ret[2].Final_Risk
    /\ last.ret[2].Final_Risk > last.arg.simulation_results[2].Final_Risk

\* The rows of a route all have a non-negative Slope_Magnitude(%).
NonNegativeSlopes(route) ==
    \A i \in DOMAIN route : SegmentKind(route[i]).Slope_Magnitude >= 0

C24_NotDownhillStepCools ==
    (last.fn = "calculate_brake_failure_risk" /\ ~last.arg.is_downhill) =>
        /\ object.self.brake_temperature
             = (IF last.before.brake_temperature - 5 * Scale > 20 * Scale
                THEN last.before.brake_temperature - 5 * Scale ELSE 20 * Scale)
        /\ object.self.cumulative_brake_usage
             = (IF last.before.cumulative_brake_usage - 100000 > 0
                THEN last.before.cumulative_brake_usage - 100000 ELSE 0)
        /\ last.ret.brake_failure_risk = 0
        /\ last.ret.brake_temperature = object.self.brake_temperature

\* A step that is not downhill taken above 300 degrees with a usage above 10
\* (where a downhill step returns a risk of 1): the risk returned is 0.
C24_Witness ==
    /\ last.fn = "calculate_brake_failure_risk"
    /\ ~last.arg.is_downhill
    /\ last.before.brake_temperature > 300 * Scale
    /\ last.before.cumulative_brake_usage > 10 * Scale
    /\ object.self.brake_temperature = last.before.brake_temperature - 5 * Scale
    /\ object.self.cumulative_brake_usage = last.before.cumulative_brake_usage - 100000
    /\ last.ret.brake_failure_risk = 0

\* The heating of a downhill step in Scale-d degrees, from the formula of
\* lines 131-149 taken in one product: weight * 9.81 * distance in metres
\* * sin(atan(slope / 100)) * heat factor / (50 * 500 * 1000), times
\* 2 * speed / max safe speed.
HeatingOf(vp, slope, segment_distance, spd) ==
    LET per_metre == MulDiv(MulDiv(vp.Weight_kg * 981, vp.Brake_Heat_Factor, 100),
                            SinAtan(Abs(slope)), 50 * 500 * 1000)
    IN  MulDiv(MulDiv(per_metre, segment_distance * 10, 100),
               2 * spd, vp.Max_Safe_Speed_Hills_kmh * 10)

\* Two Scale-d values equal up to the given rounding error.
Near(x, y, error) == x - y <= error /\ y - x <= error

\* C25: on a downhill step (is_downhill with a negative slope) the updated
\* temperature is max(20, old temperature + heating - 2), the cumulative
\* usage grows by (slope magnitude / 30) * (segment distance / 0.11), and the
\* risk returned is min(0.7 * t + 0.3 * u, 1) with t = 0 up to 200 degrees and
\* (temperature - 200) / 200 above, and u = min(usage / 10, 1), both of the
\* updated values.  (Temperatures to 0.01 degree, usage to 0.001.)
C25_DownhillStepHeats ==
    (/\ last.fn = "calculate_brake_failure_risk"
     /\ last.arg.is_downhill
     /\ last.arg.slope < 0) =>
        LET temperature == object.self.brake_temperature
            usage       == object.self.cumulative_brake_usage
            heated      == last.before.brake_temperature
                             + HeatingOf(object.vp, last.arg.slope,
                                         last.arg.segment_distance, last.arg.speed)
                             - 2 * Scale
            t           == IF temperature <= 200 * Scale THEN 0
                           ELSE (temperature - 200 * Scale) \div 200
            u           == IF usage \div 10 < Scale THEN usage \div 10 ELSE Scale
            risk        == (7 * t + 3 * u) \div 10
        IN  /\ Near(temperature, IF heated > 20 * Scale THEN heated ELSE 20 * Scale,
                    10000)
            /\ Near(usage - last.before.cumulative_brake_usage,
                    MulDiv(Abs(last.arg.slope) * last.arg.segment_distance, Scale, 330),
                    1000)
            /\ last.ret.brake_failure_risk = (IF risk < Scale THEN risk ELSE Scale)

\* A downhill step that ends above 200 degrees with a risk strictly between
\* 0.3 (the usage term at its cap) and 1.
C25_Witness ==
    /\ last.fn = "calculate_brake_failure_risk"
    /\ last.arg.is_downhill
    /\ last.arg.slope < 0
    /\ object.self.brake_temperature > 200 * Scale
    /\ object.self.cumulative_brake_usage > 10 * Scale
    /\ last.ret.brake_failure_risk > 300000
    /\ last.ret.brake_failure_risk < Scale

\* The multiplier with the increments of the flags that are on added to 1 in
\* the given order, then multiplied by the experience factor.
RECURSIVE AddInOrder(_, _, _)
AddInOrder(sum, order, b) ==
    IF order = <<>> THEN sum
    ELSE AddInOrder(sum + (CASE Head(order) = "is_night" ->
                                  IF b.is_night THEN 350000 ELSE 0
                             [] Head(order) = "is_overspeeding" ->
                                  IF b.is_overspeeding THEN 500000 ELSE 0
                             [] Head(order) = "poor_visibility" ->
                                  IF b.poor_visibility THEN 400000 ELSE 0),
                    Tail(order), b)

FlagOrders ==
    {order \in [1..3 -> {"is_night", "is_overspeeding", "poor_visibility"}] :
        \A x, y \in 1..3 : x # y => order[x] # order[y]}

\* C26: every record has Combined_Risk = 0.25 * stability + 0.30 * brake
\* failure + 0.25 * cliff fall + 0.20 * landslide and Final_Risk =
\* min(Combined_Risk * m, 1) with m = (1 + 0.35 if night + 0.50 if
\* overspeeding + 0.40 if poor visibility) * experience factor (Novice 1.4,
\* Medium 1.0, Expert 0.75), in whatever order the flags are added.
C26_CombinedAndFinalRisk ==
    \A j \in Journeys : \A i \in DOMAIN results[j] :
        LET r == results[j][i]
            b == driver_behavior[j]
            experience == CASE b.driver_experience = "Novice" -> 1400000
                            [] b.driver_experience = "Medium" -> 1000000
                            [] b.driver_experience = "Expert" -> 750000
        IN  /\ r.Combined_Risk
                 = (25 * r.Stability_Risk + 30 * r.Brake_Failure_Risk
                    + 25 * r.Cliff_Fall_Risk + 20 * r.Landslide_Risk) \div 100
            /\ \A order \in FlagOrders :
                  LET m       == MulDiv(AddInOrder(Scale, order, b), experience, Scale)
                      product == MulDiv(r.Combined_Risk, m, Scale)
                  IN  r.Final_Risk = (IF product < Scale THEN product ELSE Scale)

\* A record of an expert's journey at night and overspeeding (m = 1.3875)
\* whose final risk is above its combined risk and below 1, after a record
\* of a novice's journey in fog (m = 1.96) in another run.
C26_Witness ==
    /\ Len(results[2]) >= 1
    /\ driver_behavior[2].driver_experience = "Expert"
    /\ driver_behavior[2].is_night
    /\ driver_behavior[2].is_overspeeding
    /\ ~driver_behavior[2].poor_visibility
    /\ results[2][1].Brake_Failure_Risk > 0
    /\ results[2][1].Final_Risk > results[2][1].Combined_Risk
    /\ results[2][1].Final_Risk < Scale
    /\ results[2][1].Final_Risk = MulDiv(results[2][1].Combined_Risk, 1387500, Scale)

\* The number of items of a list of recommendations with a priority.
CountPriority(recommendations, priority) ==
    Cardinality({i \in DOMAIN recommendations : recommendations[i].priority = priority})

\* 1 when the condition holds and 0 when it does not.
One(condition) == IF condition THEN 1 ELSE 0

\* C27: for one segment record generate_segment_recommendations gives one
\* CRITICAL and one HIGH item for brake failure risk > 0.6, otherwise one
\* MEDIUM item for brake failure risk > 0.4; one CRITICAL and one HIGH item
\* for cliff fall risk > 0.6; one CRITICAL and one HIGH item for landslide
\* risk > 0.6; one HIGH and one MEDIUM item for stability risk > 0.5; one
\* HIGH item for a safe speed recommendation < 30; and nothing else.
C27_SegmentRulesByThreshold ==
    last.fn = "generate_segment_recommendations" =>
        LET d == last.arg.segment_data
            brake_high  == One(d.Brake_Failure_Risk > 600000)
            brake_mid   == One(d.Brake_Failure_Risk > 400000
                               /\ ~(d.Brake_Failure_Risk > 600000))
            cliff_rule  == One(d.Cliff_Fall_Risk > 600000)
            slide_rule  == One(d.Landslide_Risk > 600000)
            curve_rule  == One(d.Stability_Risk > 500000)
            speed_rule  == One(d.Safe_Speed_Recommendation < 30 * Scale)
        IN  /\ CountPriority(last.ret, "CRITICAL") = brake_high + cliff_rule + slide_rule
            /\ CountPriority(last.ret, "HIGH")
                 = brake_high + cliff_rule + slide_rule + curve_rule + speed_rule
            /\ CountPriority(last.ret, "MEDIUM") = brake_mid + curve_rule
            /\ Len(last.ret) = 2 * brake_high + brake_mid + 2 * cliff_rule
                                 + 2 * slide_rule + 2 * curve_rule + speed_rule

\* A record with a brake failure risk above 0.6 and every other value exactly
\* at its threshold: the two items of the upper brake tier and no MEDIUM item.
C27_Witness ==
    /\ last.fn = "generate_segment_recommendations"
    /\ last.arg.segment_data.Brake_Failure_Risk = 600001
    /\ last.arg.segment_data.Cliff_Fall_Risk = 600000
    /\ last.arg.segment_data.Landslide_Risk = 600000
    /\ last.arg.segment_data.Stability_Risk = 500000
    /\ last.arg.segment_data.Safe_Speed_Recommendation = 30 * Scale
    /\ Len(last.ret) = 2
    /\ last.ret[1].priority = "CRITICAL"
    /\ last.ret[2].priority = "HIGH"

\* A list of recommendations has an item with this recommendation text.
HasItem(recommendations, text) ==
    \E i \in DOMAIN recommendations : recommendations[i].recommendation = <<text>>

\* A call of generate_safety_report that returned a report.
Reported == last.fn = "generate_safety_report" /\ "raised" \notin DOMAIN last.ret

\* C28: generate_road_level_recommendations gives the road-wide audit item
\* exactly when critical_segments > 5, the two brake items exactly when
\* brake_critical_segments > 3, the guardrail program exactly when
\* cliff_zones > 10, the two landslide items exactly when landslide_zones > 5,
\* and always ends with the two general items (HIGH, then MEDIUM); so the
\* recommendations of a report are never empty.
C28_RoadRulesByThreshold ==
    /\ last.fn = "generate_road_level_recommendations" =>
          LET s == last.arg.risk_stats
              r == last.ret
          IN  /\ HasItem(r, "Comprehensive road safety audit and immediate intervention")
                   <=> s.critical_segments > 5
              /\ HasItem(r, "Install 2-3 emergency escape ramps at strategic locations")
                   <=> s.brake_critical_segments > 3
              /\ HasItem(r, "Mandatory brake check stations before steep descents")
                   <=> s.brake_critical_segments > 3
              /\ HasItem(r, "Phased guardrail installation program for all cliff zones")
                   <=> s.cliff_zones > 10
              /\ HasItem(r, "Implement real-time weather-based road closure system")
                   <=> s.landslide_zones > 5
              /\ HasItem(r, "Restrict traffic during heavy rainfall (>50mm/day)")
                   <=> s.landslide_zones > 5
              /\ Len(r) = 2 + One(s.critical_segments > 5)
                            + 2 * One(s.brake_critical_segments > 3)
                            + One(s.cliff_zones > 10)
                            + 2 * One(s.landslide_zones > 5)
              /\ r[Len(r) - 1].priority = "HIGH"
              /\ r[Len(r) - 1].recommendation
                   = <<"Deploy mobile safety patrol units during peak hours">>
              /\ r[Len(r)].priority = "MEDIUM"
              /\ r[Len(r)].recommendation
                   = <<"Conduct driver awareness campaigns for mountain driving">>
    /\ Reported =>
          /\ Len(last.ret.recommendations) >= 2
          /\ HasItem(last.ret.recommendations,
                     "Deploy mobile safety patrol units during peak hours")
          /\ HasItem(last.ret.recommendations,
                     "Conduct driver awareness campaigns for mountain driving")

\* Statistics with cliff_zones and brake_critical_segments exactly at their
\* thresholds and the two other counts above theirs: the audit item, the two
\* landslide items and the two general items, five in all.
C28_Witness ==
    /\ last.fn = "generate_road_level_recommendations"
    /\ last.arg.risk_stats.critical_segments = 6
    /\ last.arg.risk_stats.brake_critical_segments = 3
    /\ last.arg.risk_stats.cliff_zones = 10
    /\ last.arg.risk_stats.landslide_zones = 6
    /\ Len(last.ret) = 5
    /\ last.ret[1].priority = "CRITICAL"
    /\ last.ret[5].scope = "AWARENESS"

\* The place of a priority in the order CRITICAL, HIGH, MEDIUM, LOW.
PriorityLevel(priority) ==
    CASE priority = "CRITICAL" -> 1
      [] priority = "HIGH"     -> 2
      [] priority = "MEDIUM"   -> 3
      [] priority = "LOW"      -> 4

\* No row of a lower priority precedes a row of a higher one.
InPriorityOrder(rows) ==
    \A k, m \in DOMAIN rows :
        (/\ k < m
         /\ rows[k].priority \in {"CRITICAL", "HIGH", "MEDIUM", "LOW"}
         /\ rows[m].priority \in {"CRITICAL", "HIGH", "MEDIUM", "LOW"}) =>
            PriorityLevel(rows[k].priority) <= PriorityLevel(rows[m].priority)

\* Two recommendations with the same keys and values.
SameRecommendation(a, b) ==
    /\ DOMAIN a = DOMAIN b
    /\ \A c \in DOMAIN a : a[c] = b[c]

\* A row of the returned frame is the recommendation rec: it has rec's values
\* under rec's keys and missing cells under the others.
RowOf(row, rec) ==
    /\ \A c \in DOMAIN rec : c \in DOMAIN row /\ row[c] = rec[c]
    /\ \A c \in (DOMAIN row \ DOMAIN rec) \ {"priority_rank"} :
          IF c \in {"segment", "distance_km"} THEN row[c] = NaN ELSE row[c] = NaNCell

\* C21: the rows returned by prioritize_interventions, and so the
\* recommendations of a report, are in the order CRITICAL, HIGH, MEDIUM, LOW
\* (no row of a lower priority before one of a higher), and the returned rows
\* are exactly the recommendations passed in, each as often as it was passed.
C21_PrioritizedInOrder ==
    /\ last.fn = "prioritize_interventions" =>
          LET passed   == last.arg.all_recommendations
              returned == last.ret
          IN  /\ InPriorityOrder(returned)
              /\ Len(returned) = Len(passed)
              /\ \A i \in DOMAIN passed :
                    Cardinality({k \in DOMAIN passed :
                                    SameRecommendation(passed[k], passed[i])})
                      = Cardinality({k \in DOMAIN returned : RowOf(returned[k], passed[i])})
    /\ Reported => InPriorityOrder(last.ret.recommendations)

\* A list passed with its LOW item first and its CRITICAL item second comes
\* back with the CRITICAL item first and the LOW item last.
C21_Witness ==
    /\ last.fn = "prioritize_interventions"
    /\ Len(last.arg.all_recommendations) = 3
    /\ last.arg.all_recommendations[1].priority = "LOW"
    /\ last.arg.all_recommendations[2].priority = "CRITICAL"
    /\ last.arg.all_recommendations[3].priority = "HIGH"
    /\ last.ret[1].priority = "CRITICAL"
    /\ last.ret[1].segment = 2
    /\ last.ret[2].priority = "HIGH"
    /\ last.ret[3].priority = "LOW"
    /\ last.ret[3].segment = NaN

\* C22: in a report, every recommendation tagged with a segment id s is one
\* of the recommendations of the record whose Segment is s (the tables have
\* unique, increasing Segment ids, 1..N or not).
C22_TaggedWithOwnRecord ==
    Reported =>
        LET t == last.arg.simulation_results
        IN  \A k \in DOMAIN last.ret.recommendations :
                LET row == last.ret.recommendations[k]
                IN  ("segment" \in DOMAIN row /\ row.segment # NaN) =>
                        \E i \in DOMAIN t :
                            /\ t[i].Segment = row.segment
                            /\ \E rec \in {generate_segment_recommendations(t[i])[x]
                                           : x \in DOMAIN generate_segment_recommendations(t[i])} :
                                  /\ rec.recommendation = row.recommendation
                                  /\ rec.reason = row.reason
                                  /\ rec.priority = row.priority

\* A one-row result table whose record has the given cliff fall risk and no
\* other risk.
CliffOnlyRow(cliff_fall_risk) ==
    ResultRow(1, cliff_fall_risk, 0, 20 * Scale, cliff_fall_risk, 0, 0, 0, "LOW",
              45 * Scale)

\* C29: for a segment with a cliff, a road width >= 0, a visibility >= 0, a
\* speed >= 0 and a stability risk in [0, 1]: with a guardrail the cliff fall
\* risk is at most 0.15525, the severity is 'LOW', the record is not counted
\* as a cliff zone and gets no cliff recommendation; without a guardrail the
\* risk is at most 0.7452, below the clamp at 1.
C29_CliffRiskBounds ==
    (/\ last.fn = "calculate_cliff_fall_risk"
     /\ last.arg.cliff_present
     /\ last.arg.road_width >= 0
     /\ last.arg.visibility >= 0
     /\ last.arg.speed >= 0
     /\ last.arg.stability_risk >= 0
     /\ last.arg.stability_risk <= Scale) =>
        IF last.arg.guardrail
        THEN /\ last.ret.cliff_fall_risk <= 155250
             /\ last.ret.severity = "LOW - Manageable risk"
             /\ calculate_risk_statistics(
                    <<CliffOnlyRow(last.ret.cliff_fall_risk)>>).cliff_zones = 0
             /\ CliffRecommendations(CliffOnlyRow(last.ret.cliff_fall_risk)) = <<>>
        ELSE /\ last.ret.cliff_fall_risk <= 745200
             /\ last.ret.cliff_fall_risk < Scale

\* The worst case with a guardrail: no width, no visibility, 90 km/h and a
\* stability risk of 1 give exactly 0.15525.
C29_Witness ==
    /\ last.fn = "calculate_cliff_fall_risk"
    /\ last.arg.cliff_present
    /\ last.arg.guardrail
    /\ last.arg.road_width = 0
    /\ last.arg.visibility = 0
    /\ last.arg.speed = 900
    /\ last.arg.stability_risk = Scale
    /\ last.ret.cliff_fall_risk = 155250
    /\ last.ret.severity = "LOW - Manageable risk"

\* C30: the statistics of every result table satisfy critical_segments <=
\* extreme_segments <= high_risk_segments <= total_segments.
C30_CountsAreNested ==
    /\ last.fn = "calculate_risk_statistics" =>
          /\ last.ret.critical_segments <= last.ret.extreme_segments
          /\ last.ret.extreme_segments <= last.ret.high_risk_segments
          /\ last.ret.high_risk_segments <= last.ret.total_segments
    /\ Reported =>
          /\ last.ret.statistics.critical_segments <= last.ret.statistics.extreme_segments
          /\ last.ret.statistics.extreme_segments
               <= last.ret.statistics.high_risk_segments
          /\ last.ret.statistics.high_risk_segments <= last.ret.statistics.total_segments

\* A table of three rows with one critical row, one extreme row below the
\* critical threshold and one row below the high threshold: counts 1, 2, 2, 3.
C30_Witness ==
    /\ last.fn = "calculate_risk_statistics"
    /\ last.ret.total_segments = 3
    /\ last.ret.high_risk_segments = 2
    /\ last.ret.extreme_segments = 2
    /\ last.ret.critical_segments = 1
    /\ last.arg.simulation_results[3].Final_Risk = 399999

====
